---- MODULE Spec2Model ----
(***************************************************************************)
(* Model of the decision-and-validation core of ai-file-organizer:         *)
(*   src-tauri/src/ai_service.rs      OllamaService (classifier pipeline)  *)
(*   src-tauri/src/johnny_decimal.rs  JohnnyDecimalEngine (builder,        *)
(*                                    validator, category assigner)        *)
(*   src-tauri/src/database.rs        DatabaseManager (stored structures)  *)
(* These specifications share the module:                                  *)
(*   Spec          the classifier's lifecycle and classify calls           *)
(*   SpecParse     parse_ai_response over every bounded raw reply          *)
(*   SpecBuild     create_structure, and validate_structure on its result  *)
(*   SpecValidate  validate_structure on structures of any shape           *)
(*   SpecAssign    categorize_file on structures of any shape              *)
(*   SpecAgree     create_structure, and categorize_file on its result     *)
(*   SpecCalls     calls on one OllamaService in flight together           *)
(*   SpecStore     DatabaseManager save_structure / load_structure         *)
(* f64 confidences are kept as integers in hundredths (0.75 is 75).        *)
(***************************************************************************)
EXTENDS Integers, Sequences, FiniteSets, TLC

VARIABLES
    is_running,      \* OllamaService.is_running
    current_model,   \* OllamaService.current_model (NONE or a model name)
    pc,              \* "idle", or "generate" while analyze_file awaits the backend
    request,         \* the AnalysisRequest of the call in flight / last call
    last,            \* what the last completed call returned
    response,        \* SpecParse: the raw reply text (a token sequence)
    parsed,          \* SpecParse: what parse_ai_response made of it
    files,           \* SpecBuild: the batch of file descriptors
    profile,         \* SpecBuild: build profile, "debug" or "release"
    structure,       \* SpecBuild: the JDStructure returned by create_structure
    validation,      \* SpecBuild: the JDValidationResult of the last validate
    assignment,      \* SpecAssign: the CategoryAssignment of the last categorize
    validations,     \* how many validate_structure calls have returned or aborted
    calls,           \* SpecCalls: per caller, its call on the service now in flight
    store,           \* SpecStore: the rows of table jd_structures
    loaded           \* SpecStore: what the last load_structure returned

vars == <<is_running, current_model, pc, request, last, response, parsed,
          files, profile, structure, validation, assignment, validations,
          calls, store, loaded>>

svcVars   == <<is_running, current_model, pc, request, last>>
parseVars == <<response, parsed>>
buildVars == <<files, profile, structure, validation, assignment, validations>>
callVars  == <<calls>>
dbVars    == <<store, loaded>>

\* Option::None, and the value of a variable a specification does not use.
NONE == "None"

-----------------------------------------------------------------------------
(* Bounds *)

\* longest raw reply, in tokens
MaxReplyLen == 4
\* largest batch handed to create_structure
MaxBatch == 3

-----------------------------------------------------------------------------
(* Strings *)

\* File extensions the calls are made with: keys of either rule table, keys
\* of only one of them, mixed-case spellings, an unknown one and the empty one.
Extensions ==
    { "pdf", "doc", "docx", "txt", "rtf", "xls", "xlsx", "csv", "ppt", "pptx",
      "jpg", "jpeg", "png", "gif", "bmp", "svg", "mp4", "avi", "mkv", "mov",
      "wmv", "mp3", "wav", "flac", "aac", "js", "ts", "py", "rs", "java",
      "cpp", "c", "html", "css", "json", "xml", "yaml", "yml", "zip", "rar",
      "7z", "tar", "gz", "exe", "msi", "dmg", "pkg",
      "PDF", "Jpg", "ZIP", "xyz", "" }

\* str::to_lowercase on the strings of the model: the extensions above, of
\* which three have an upper-case letter, and the category labels of the
\* builder's table.
to_lowercase(s) ==
    CASE s = "PDF" -> "pdf"
      [] s = "Jpg" -> "jpg"
      [] s = "ZIP" -> "zip"
      [] s = "Reports and Documents" -> "reports and documents"
      [] s = "Text Documents" -> "text documents"
      [] s = "Spreadsheets" -> "spreadsheets"
      [] s = "Presentations" -> "presentations"
      [] s = "Images" -> "images"
      [] s = "Videos" -> "videos"
      [] s = "Audio" -> "audio"
      [] s = "Source Code" -> "source code"
      [] s = "Web Files" -> "web files"
      [] s = "Configuration" -> "configuration"
      [] s = "Compressed Files" -> "compressed files"
      [] s = "Miscellaneous" -> "miscellaneous"
      [] s = "ARCHIVED REPORTS AND DOCUMENTS" -> "archived reports and documents"
      [] OTHER -> s

-----------------------------------------------------------------------------
(* ai_service.rs: the rule-based classifier *)

MISC_CATEGORY == "90-99 Miscellaneous/91 Other Files"

\* confidence of the rule-based suggestion, 0.75
RULE_CONFIDENCE == 75
\* confidence of the keyword-heuristic suggestion, 0.6
TEXT_CONFIDENCE == 60
\* confidence when the reply's JSON carries none, 0.5
DEFAULT_CONFIDENCE == 50

\* the match of rule_based_analysis
rule_category(ext) ==
    LET e == to_lowercase(ext) IN
    CASE e \in {"pdf", "doc", "docx", "txt", "rtf"} -> "20-29 Documents/21 Text Documents"
      [] e \in {"xls", "xlsx", "csv"} -> "20-29 Documents/22 Spreadsheets"
      [] e \in {"ppt", "pptx"} -> "20-29 Documents/23 Presentations"
      [] e \in {"jpg", "jpeg", "png", "gif", "bmp", "svg"} -> "30-39 Media/31 Images"
      [] e \in {"mp4", "avi", "mkv", "mov", "wmv"} -> "30-39 Media/32 Videos"
      [] e \in {"mp3", "wav", "flac", "aac"} -> "30-39 Media/33 Audio"
      [] e \in {"zip", "rar", "7z", "tar", "gz"} -> "40-49 Archives/41 Compressed Files"
      [] e \in {"exe", "msi", "dmg", "pkg"} -> "40-49 Archives/42 Installers"
      [] OTHER -> MISC_CATEGORY

rule_based_analysis(req) ==
    [ kind |-> "ok",
      val  |-> [ suggested_category |-> rule_category(req.file_extension),
                 confidence |-> RULE_CONFIDENCE,
                 reasoning |-> <<"File categorized based on extension '",
                                 req.file_extension,
                                 "' using rule-based fallback">>,
                 alternative_categories |-> <<MISC_CATEGORY>>,
                 tags |-> <<req.file_extension, "rule-based">> ] ]

-----------------------------------------------------------------------------
(* ai_service.rs: parse_ai_response *)

\* A raw reply is a sequence of tokens, each standing for the substring it
\* spells; the reply is their concatenation.  "{" and "}" occur in a reply
\* only as the brace tokens (and inside the complete members below, which
\* carry none).
LB == "{"
RB == "}"
COMMA == ","
KEY_CATEGORY == "\"category\":"
MEMBER_CATEGORY == "\"category\":\"30-39 Media/31 Images\""
MEMBER_CONF_HIGH == "\"confidence\":1.5"
MEMBER_CONF_OK == "\"confidence\":0.9"

Words == {"Documents", "Media", "Images", "text"}
Members == {MEMBER_CATEGORY, MEMBER_CONF_HIGH, MEMBER_CONF_OK}
Tokens == {LB, RB, COMMA, KEY_CATEGORY} \cup Members \cup Words

\* the "key": value pair a member token spells
member_key(tok) ==
    IF tok = MEMBER_CATEGORY THEN "category" ELSE "confidence"

member_value(tok) ==
    CASE tok = MEMBER_CATEGORY -> [t |-> "str", v |-> "30-39 Media/31 Images"]
      [] tok = MEMBER_CONF_HIGH -> [t |-> "num", v |-> 150]
      [] tok = MEMBER_CONF_OK -> [t |-> "num", v |-> 90]

\* str::contains(word) on a token's text
token_contains(tok, word) ==
    \/ tok = word
    \/ tok = MEMBER_CATEGORY /\ word \in {"Media", "Images"}

\* str::contains(word) on the whole reply
contains(text, word) ==
    \E i \in 1..Len(text) : token_contains(text[i], word)

\* str::find('{') / str::rfind('}'): 0 stands for None
find(text, tok) ==
    IF \E i \in 1..Len(text) : text[i] = tok
    THEN CHOOSE i \in 1..Len(text) :
            text[i] = tok /\ \A j \in 1..(i - 1) : text[j] # tok
    ELSE 0

rfind(text, tok) ==
    IF \E i \in 1..Len(text) : text[i] = tok
    THEN CHOOSE i \in 1..Len(text) :
            text[i] = tok /\ \A j \in (i + 1)..Len(text) : text[j] # tok
    ELSE 0

\* insertion into a serde_json Map: a later duplicate key replaces the value
map_insert(m, k, v) ==
    [x \in DOMAIN m \cup {k} |-> IF x = k THEN v ELSE m[x]]

EmptyMap == [x \in {} |-> NONE]

ParseFail == [ok |-> FALSE, next |-> 0, val |-> NONE]

\* serde_json's recursive descent on the tokens: an object is "{" "}" or
\* "{" member ("," member)* "}", a member is a complete member token or the
\* key "category": followed by a value, and the only values that span
\* several tokens are objects.
RECURSIVE parse_object(_, _)
RECURSIVE parse_members(_, _, _)

parse_members(s, i, acc) ==
    IF i > Len(s) THEN ParseFail
    ELSE
      LET m == IF s[i] \in Members
               THEN [ok |-> TRUE, next |-> i + 1, key |-> member_key(s[i]),
                     val |-> member_value(s[i])]
               ELSE IF s[i] = KEY_CATEGORY
                    THEN LET v == parse_object(s, i + 1)
                         IN  [ok |-> v.ok, next |-> v.next, key |-> "category",
                              val |-> [t |-> "obj", v |-> v.val]]
                    ELSE [ok |-> FALSE, next |-> 0, key |-> NONE, val |-> NONE]
      IN  IF ~m.ok \/ m.next > Len(s) THEN ParseFail
          ELSE LET acc2 == map_insert(acc, m.key, m.val)
               IN  CASE s[m.next] = COMMA -> parse_members(s, m.next + 1, acc2)
                     [] s[m.next] = RB -> [ok |-> TRUE, next |-> m.next + 1, val |-> acc2]
                     [] OTHER -> ParseFail

parse_object(s, i) ==
    IF i + 1 > Len(s) \/ s[i] # LB THEN ParseFail
    ELSE IF s[i + 1] = RB THEN [ok |-> TRUE, next |-> i + 2, val |-> EmptyMap]
    ELSE parse_members(s, i + 1, EmptyMap)

\* serde_json::from_str::<Value>: one value, then end of input
from_str(s) ==
    LET r == parse_object(s, 1)
    IN  IF r.ok /\ r.next = Len(s) + 1 THEN r ELSE ParseFail

\* data[key].as_str().unwrap_or(default)
as_str_or(data, key, default) ==
    IF key \in DOMAIN data /\ data[key].t = "str" THEN data[key].v ELSE default

\* data[key].as_f64().unwrap_or(default)
as_f64_or(data, key, default) ==
    IF key \in DOMAIN data /\ data[key].t = "num" THEN data[key].v ELSE default

\* data[key].as_array() filtered to strings, unwrap_or_default; no token of
\* the reply alphabet spells an array, so the default is what comes out
as_string_array(data, key) ==
    IF key \in DOMAIN data /\ data[key].t = "arr" THEN data[key].v ELSE <<>>

\* the "Fallback: extract category from text" tail of parse_ai_response
text_fallback(text) ==
    [ kind |-> "ok",
      val  |-> [ suggested_category |->
                    IF contains(text, "Documents")
                    THEN "20-29 Documents/21 Text Documents"
                    ELSE IF contains(text, "Media") \/ contains(text, "Images")
                         THEN "30-39 Media/31 Images"
                         ELSE MISC_CATEGORY,
                 confidence |-> TEXT_CONFIDENCE,
                 reasoning |-> <<"Parsed from AI text response">>,
                 alternative_categories |-> <<>>,
                 tags |-> <<"ai-parsed">> ] ]

structured(data) ==
    [ kind |-> "ok",
      val  |-> [ suggested_category |-> as_str_or(data, "category", MISC_CATEGORY),
                 confidence |-> as_f64_or(data, "confidence", DEFAULT_CONFIDENCE),
                 reasoning |-> <<as_str_or(data, "reasoning", "AI analysis")>>,
                 alternative_categories |-> as_string_array(data, "alternatives"),
                 tags |-> as_string_array(data, "tags") ] ]

\* &response[start..=end]: the slice start..end+1.  It is empty when the "{"
\* comes right after the "}", and the index panics ("slice index starts at ..
\* but ends at ..") when anything lies between that "}" and the "{".
parse_ai_response(text) ==
    LET start == find(text, LB)
        end   == rfind(text, RB)
    IN  IF start # 0 /\ end # 0
        THEN IF start > end + 1
             THEN [kind |-> "panic", val |-> NONE]
             ELSE LET json == from_str(SubSeq(text, start, end))
                  IN  IF json.ok THEN structured(json.val) ELSE text_fallback(text)
        ELSE text_fallback(text)

-----------------------------------------------------------------------------
(* ai_service.rs: OllamaService *)

DEFAULT_MODEL == "llama3.2:1b"

\* longest raw reply the backend sends to a classify call, in tokens
MaxSvcReplyLen == 3

Replies(n) == UNION {[1..k -> Tokens] : k \in 0..n}

\* What the backend does with GET /api/tags behind get_available_models: a
\* failure (transport error, non-success status, body that is no JSON) or a
\* list of model names.
ModelLists == {<<>>, <<DEFAULT_MODEL>>, <<"mistral:7b">>}
TagsOutcomes == {[ok |-> FALSE, models |-> <<>>]}
                \cup {[ok |-> TRUE, models |-> l] : l \in ModelLists}

\* The ways POST /api/generate fails before a reply text is at hand
GenerateFailures ==
    {"timeout", "transport", "http_status", "body_not_json", "no_response_text"}

Requests == [file_extension : Extensions]

NoRequest == [file_extension |-> NONE]
NotParsed == [kind |-> "none", val |-> NONE]
NoStructure == [id |-> NONE]
NoValidation == [kind |-> "none"]
NoAssignment == [kind |-> "none"]
NoCalls == <<>>
NotLoaded == [kind |-> "none"]
Idle == [op |-> "new", kind |-> "ok", cause |-> "none", val |-> NONE]

\* get_available_models: no request at all when not running
get_available_models(running, tags) ==
    IF ~running THEN [ok |-> TRUE, models |-> <<>>] ELSE tags

\* ensure_model_available: the `?` returns early on a failed list query;
\* otherwise the model is selected whether or not the list names it.
ensure_model_available(running, model, tags, model_name) ==
    IF get_available_models(running, tags).ok THEN model_name ELSE model

\* start(&mut self).  avail1, avail2: what is_service_available answers before
\* and after the launch; spawned: whether `ollama serve` could be spawned.
\* Neither failure branch assigns is_running.
\* a start that selects the default model before it probes the launched
\* backend
Mutant_start_state(running, model, avail1, spawned, avail2, tags) ==
    IF avail1
    THEN [is_running |-> TRUE, current_model |-> model,
          kind |-> "ok", val |-> "Ollama service is already running"]
    ELSE IF spawned
         THEN IF avail2
              THEN [is_running |-> TRUE, current_model |-> DEFAULT_MODEL,
                    kind |-> "ok", val |-> "Ollama service started successfully"]
              ELSE [is_running |-> running, current_model |-> DEFAULT_MODEL,
                    kind |-> "err", val |-> "Failed to start Ollama service"]
         ELSE [is_running |-> running, current_model |-> model,
               kind |-> "err", val |-> "Failed to start Ollama: Failed to spawn Ollama process"]

start_state(running, model, avail1, spawned, avail2, tags) ==
    IF avail1
    THEN [is_running |-> TRUE, current_model |-> model,
          kind |-> "ok", val |-> "Ollama service is already running"]
    ELSE IF spawned
         THEN IF avail2
              THEN [is_running |-> TRUE,
                    current_model |-> ensure_model_available(TRUE, model, tags, DEFAULT_MODEL),
                    kind |-> "ok", val |-> "Ollama service started successfully"]
              ELSE [is_running |-> running, current_model |-> model,
                    kind |-> "err", val |-> "Failed to start Ollama service"]
         ELSE [is_running |-> running, current_model |-> model,
               kind |-> "err", val |-> "Failed to start Ollama: Failed to spawn Ollama process"]

start(avail1, spawned, avail2, tags) ==
    /\ pc = "idle"
    /\ LET r == start_state(is_running, current_model, avail1, spawned, avail2, tags)
       IN  /\ is_running' = r.is_running
           /\ current_model' = r.current_model
           /\ last' = [op |-> "start", kind |-> r.kind, cause |-> "none", val |-> r.val]
    /\ UNCHANGED <<pc, request, parseVars, buildVars, callVars, dbVars>>

\* a stop that marks the service as not running and keeps the selected model
Mutant_stop ==
    /\ pc = "idle"
    /\ is_running' = FALSE
    /\ current_model' = current_model
    /\ last' = [op |-> "stop", kind |-> "ok", cause |-> "none", val |-> NONE]
    /\ UNCHANGED <<pc, request, parseVars, buildVars, callVars, dbVars>>

stop ==
    /\ pc = "idle"
    /\ is_running' = FALSE
    /\ current_model' = NONE
    /\ last' = [op |-> "stop", kind |-> "ok", cause |-> "none", val |-> NONE]
    /\ UNCHANGED <<pc, request, parseVars, buildVars, callVars, dbVars>>

\* get_status(&self): the JSON object it answers with
status_value(running, model, tags) ==
    IF ~running
    THEN [status |-> "stopped", model |-> NONE, available |-> FALSE, models |-> <<>>]
    ELSE IF get_available_models(running, tags).ok
         THEN [status |-> "running", model |-> model, available |-> TRUE,
               models |-> get_available_models(running, tags).models]
         ELSE [status |-> "error", model |-> NONE, available |-> FALSE, models |-> <<>>]

get_status(tags) ==
    /\ pc = "idle"
    /\ last' = [op |-> "get_status", kind |-> "ok", cause |-> "none",
                val |-> status_value(is_running, current_model, tags)]
    /\ UNCHANGED <<is_running, current_model, pc, request, parseVars, buildVars, callVars, dbVars>>

\* a fallback that hands a timeout on to the caller as the error it is
Mutant_fallback(req, cause) ==
    IF cause = "timeout"
    THEN [op |-> "analyze_file", cause |-> cause, kind |-> "err", val |-> "Request timeout"]
    ELSE [op |-> "analyze_file", cause |-> cause] @@ rule_based_analysis(req)

\* analyze_file's `match self.ai_analyze_file(..)`: Ok is passed on, every
\* Err becomes the rule-based result.
fallback(req, cause) ==
    [op |-> "analyze_file", cause |-> cause] @@ rule_based_analysis(req)

\* analyze_file(&self, request), up to the await of the generate request: the
\* early return when not running, the `?` on a missing model, else the POST.
analyze_file(req) ==
    /\ pc = "idle"
    /\ request' = req
    /\ IF ~is_running
       THEN /\ last' = [op |-> "analyze_file", kind |-> "err", cause |-> "not_running",
                        val |-> "Ollama service is not running"]
            /\ pc' = "idle"
       ELSE IF current_model = NONE
            THEN /\ last' = fallback(req, "no_model")
                 /\ pc' = "idle"
            ELSE /\ last' = [op |-> "analyze_file", kind |-> "pending",
                             cause |-> "none", val |-> NONE]
                 /\ pc' = "generate"
    /\ UNCHANGED <<is_running, current_model, parseVars, buildVars, callVars, dbVars>>

\* ai_analyze_file after the POST: the request failed ...
generate_failed(cause) ==
    /\ pc = "generate"
    /\ last' = fallback(request, cause)
    /\ pc' = "idle"
    /\ UNCHANGED <<is_running, current_model, request, parseVars, buildVars, callVars, dbVars>>

\* ... or the envelope carried a "response" text, which is parsed.
generate_replied(text) ==
    /\ pc = "generate"
    /\ last' = [op |-> "analyze_file", cause |-> "none"] @@ parse_ai_response(text)
    /\ pc' = "idle"
    /\ UNCHANGED <<is_running, current_model, request, parseVars, buildVars, callVars, dbVars>>

Init ==
    /\ is_running = FALSE
    /\ current_model = NONE
    /\ pc = "idle"
    /\ request = NoRequest
    /\ last = Idle
    /\ response = <<>>
    /\ parsed = NotParsed
    /\ files = <<>>
    /\ profile = NONE
    /\ structure = NoStructure
    /\ validation = NoValidation
    /\ assignment = NoAssignment
    /\ validations = 0
    /\ calls = NoCalls
    /\ store = {}
    /\ loaded = NotLoaded

Next ==
    \/ \E avail1, spawned, avail2 \in BOOLEAN, tags \in TagsOutcomes :
          start(avail1, spawned, avail2, tags)
    \/ stop
    \/ \E tags \in TagsOutcomes : get_status(tags)
    \/ \E req \in Requests : analyze_file(req)
    \/ \E cause \in GenerateFailures : generate_failed(cause)
    \/ \E text \in Replies(MaxSvcReplyLen) : generate_replied(text)

Spec == Init /\ [][Next]_vars

-----------------------------------------------------------------------------
(* SpecParse: parse_ai_response applied to every raw reply of the bound *)

InitParse ==
    /\ is_running = TRUE
    /\ current_model = DEFAULT_MODEL
    /\ pc = "idle"
    /\ request = NoRequest
    /\ last = Idle
    /\ response \in Replies(MaxReplyLen)
    /\ parsed = NotParsed
    /\ files = <<>>
    /\ profile = NONE
    /\ structure = NoStructure
    /\ validation = NoValidation
    /\ assignment = NoAssignment
    /\ validations = 0
    /\ calls = NoCalls
    /\ store = {}
    /\ loaded = NotLoaded

Parse ==
    /\ parsed.kind = "none"
    /\ parsed' = parse_ai_response(response)
    /\ UNCHANGED <<response, svcVars, buildVars, callVars, dbVars>>

NextParse == Parse

SpecParse == InitParse /\ [][NextParse]_vars

-----------------------------------------------------------------------------
(* johnny_decimal.rs: JohnnyDecimalEngine *)

\* JohnnyDecimalEngine::new: extension -> (area, category_name)
MappedExtensions ==
    { "pdf", "doc", "docx", "txt", "rtf", "xls", "xlsx", "csv", "ppt", "pptx",
      "jpg", "jpeg", "png", "gif", "bmp", "svg", "mp4", "avi", "mkv", "mov",
      "mp3", "wav", "flac",
      "js", "ts", "py", "rs", "java", "cpp", "c", "html", "css",
      "json", "xml", "yaml", "yml",
      "zip", "rar", "7z", "tar", "gz" }

file_type_mappings ==
    [e \in MappedExtensions |->
        CASE e = "pdf" -> <<20, "Reports and Documents">>
          [] e \in {"doc", "docx", "txt", "rtf"} -> <<20, "Text Documents">>
          [] e \in {"xls", "xlsx", "csv"} -> <<20, "Spreadsheets">>
          [] e \in {"ppt", "pptx"} -> <<20, "Presentations">>
          [] e \in {"jpg", "jpeg", "png", "gif", "bmp", "svg"} -> <<30, "Images">>
          [] e \in {"mp4", "avi", "mkv", "mov"} -> <<30, "Videos">>
          [] e \in {"mp3", "wav", "flac"} -> <<30, "Audio">>
          [] e \in {"js", "ts", "py", "rs", "java", "cpp", "c"} -> <<40, "Source Code">>
          [] e \in {"html", "css"} -> <<40, "Web Files">>
          [] e \in {"json", "xml", "yaml", "yml"} -> <<40, "Configuration">>
          [] e \in {"zip", "rar", "7z", "tar", "gz"} -> <<50, "Compressed Files">>]

\* file_data["extension"].as_str().unwrap_or("").to_lowercase(), then
\* file_type_mappings.get(..).cloned().unwrap_or((90, "Miscellaneous"))
\* a lookup whose default is area 95
Mutant_resolve(file_data) ==
    LET extension == to_lowercase(as_str_or(file_data, "extension", ""))
    IN  IF extension \in DOMAIN file_type_mappings
        THEN file_type_mappings[extension]
        ELSE <<95, "Miscellaneous">>

resolve(file_data) ==
    LET extension == to_lowercase(as_str_or(file_data, "extension", ""))
    IN  IF extension \in DOMAIN file_type_mappings
        THEN file_type_mappings[extension]
        ELSE <<90, "Miscellaneous">>

get_area_name(number) ==
    CASE number = 10 -> <<"10-19 Administration">>
      [] number = 20 -> <<"20-29 Documents">>
      [] number = 30 -> <<"30-39 Media">>
      [] number = 40 -> <<"40-49 Development">>
      [] number = 50 -> <<"50-59 Archives">>
      [] number = 60 -> <<"60-69 Projects">>
      [] number = 70 -> <<"70-79 Reference">>
      [] number = 80 -> <<"80-89 Resources">>
      [] number = 90 -> <<"90-99 Miscellaneous">>
      [] OTHER -> <<number, "-", number + 9, " Custom Area">>

get_area_description(number) ==
    CASE number = 10 -> "Administrative documents, policies, and organizational files"
      [] number = 20 -> "Text documents, reports, presentations, and written content"
      [] number = 30 -> "Images, videos, audio files, and multimedia content"
      [] number = 40 -> "Source code, development tools, and programming resources"
      [] number = 50 -> "Compressed files, archives, and backup collections"
      [] number = 60 -> "Active projects and work-in-progress materials"
      [] number = 70 -> "Reference materials, manuals, and documentation"
      [] number = 80 -> "Tools, utilities, and supporting resources"
      [] number = 90 -> "Uncategorized and miscellaneous files"
      [] OTHER -> "Custom area for specialized content"

\* format!("{}", n) for n >= 0: the decimal digits, most significant first
RECURSIVE decimal(_)
decimal(n) ==
    LET d == <<"0", "1", "2", "3", "4", "5", "6", "7", "8", "9">>[(n % 10) + 1]
    IN  IF n < 10 THEN <<d>> ELSE Append(decimal(n \div 10), d)

\* format!("{:02}", n): zero-padded to at least two digits
decimal02(n) ==
    IF n < 10 THEN <<"0">> \o decimal(n) ELSE decimal(n)

\* format!("{}.{:02}", category_number, sequence)
item_number(category_number, sequence) ==
    decimal(category_number) \o <<".">> \o decimal02(sequence)

\* file_data["path"].as_str(): NONE when absent or no string
path_of(file_data) == as_str_or(file_data, "path", NONE)

\* position of the first category named category_name, 0 when there is none
\* (area.categories.iter_mut().find(|c| c.name == category_name))
find_category(categories, category_name) ==
    IF \E i \in 1..Len(categories) : categories[i].name = category_name
    THEN CHOOSE i \in 1..Len(categories) :
            /\ categories[i].name = category_name
            /\ \A j \in 1..(i - 1) : categories[j].name # category_name
    ELSE 0

\* the "Add file to existing category" branch: the path, when there is one,
\* goes to the first item, when there is one
add_to_category(category, file_data) ==
    IF Len(category.items) > 0 /\ path_of(file_data) # NONE
    THEN [category EXCEPT !.items[1].files = Append(@, path_of(file_data))]
    ELSE category

\* a new category that gets its item only when the descriptor has a path
Mutant_new_category(category_number, category_name, file_data) ==
    [ number |-> category_number,
      name |-> category_name,
      description |-> <<"Files of type: ", category_name>>,
      items |-> IF path_of(file_data) # NONE
                THEN << [ number |-> item_number(category_number, 1),
                          name |-> <<category_name, " Files">>,
                          description |-> <<"Collection of ", to_lowercase(category_name), " files">>,
                          files |-> <<path_of(file_data)>> ] >>
                ELSE <<>> ]

\* the "Create new category" branch: one category with one item
new_category(category_number, category_name, file_data) ==
    [ number |-> category_number,
      name |-> category_name,
      description |-> <<"Files of type: ", category_name>>,
      items |-> << [ number |-> item_number(category_number, 1),
                     name |-> <<category_name, " Files">>,
                     description |-> <<"Collection of ", to_lowercase(category_name), " files">>,
                     files |-> IF path_of(file_data) # NONE
                               THEN <<path_of(file_data)>>
                               ELSE <<>> ] >> ]

\* one turn of the `for file_data in files` loop on areas_map
group_file(areas_map, file_data) ==
    LET area_number   == resolve(file_data)[1]
        category_name == resolve(file_data)[2]
        area == IF area_number \in DOMAIN areas_map
                THEN areas_map[area_number]
                ELSE [ number |-> area_number,
                       name |-> get_area_name(area_number),
                       description |-> get_area_description(area_number),
                       categories |-> <<>> ]
        category_number == area_number + 1
        at == find_category(area.categories, category_name)
        categories ==
            IF at # 0
            THEN [area.categories EXCEPT ![at] = add_to_category(@, file_data)]
            ELSE Append(area.categories,
                        new_category(category_number, category_name, file_data))
    IN  [n \in DOMAIN areas_map \cup {area_number} |->
            IF n = area_number THEN [area EXCEPT !.categories = categories]
            ELSE areas_map[n]]

RECURSIVE group_files(_, _)
group_files(areas_map, batch) ==
    IF batch = <<>> THEN areas_map
    ELSE group_files(group_file(areas_map, Head(batch)), Tail(batch))

\* slice::sort_by_key(|x| x.number): a stable sort, as insertion sort
\* an insertion that goes before the elements of equal number: the sort is
\* no longer stable
Mutant_insert_by_number(sorted, x) ==
    LET before == {i \in 1..Len(sorted) : sorted[i].number < x.number}
        k == Cardinality(before)
    IN  SubSeq(sorted, 1, k) \o <<x>> \o SubSeq(sorted, k + 1, Len(sorted))

RECURSIVE insert_by_number(_, _)
insert_by_number(sorted, x) ==
    IF sorted = <<>> THEN <<x>>
    ELSE IF sorted[Len(sorted)].number <= x.number THEN Append(sorted, x)
    ELSE Append(insert_by_number(SubSeq(sorted, 1, Len(sorted) - 1), x),
                sorted[Len(sorted)])

\* no sort at all
Mutant_sort_by_number(seq) == seq

RECURSIVE sort_by_number(_)
sort_by_number(seq) ==
    IF seq = <<>> THEN <<>>
    ELSE insert_by_number(sort_by_number(SubSeq(seq, 1, Len(seq) - 1)), seq[Len(seq)])

\* areas_map.into_values().collect(): the values in some order.  The keys
\* are distinct, so every order sorts to the same Vec; this one is by
\* descending key.
RECURSIVE into_values(_)
into_values(areas_map) ==
    IF DOMAIN areas_map = {} THEN <<>>
    ELSE LET top == CHOOSE n \in DOMAIN areas_map : \A m \in DOMAIN areas_map : m <= n
         IN  <<areas_map[top]>>
             \o into_values([n \in DOMAIN areas_map \ {top} |-> areas_map[n]])

\* items keep the identifier they were created with
Mutant_renumber_items(category) == category

\* "Ensure proper numbering within each area"
renumber_items(category) ==
    [category EXCEPT !.items =
        [j \in 1..Len(category.items) |->
            [category.items[j] EXCEPT !.number = item_number(category.number, j)]]]

\* categories keep the temporary number they were created with
Mutant_renumber_area(area) ==
    [area EXCEPT !.categories =
        [i \in 1..Len(area.categories) |-> renumber_items(area.categories[i])]]


renumber_area(area) ==
    LET sorted == sort_by_number(area.categories)
    IN  [area EXCEPT !.categories =
            [i \in 1..Len(sorted) |->
                renumber_items([sorted[i] EXCEPT !.number = area.number + (i - 1) + 1])]]

create_structure(batch, root_path, now, id) ==
    LET areas == sort_by_number(into_values(group_files([n \in {} |-> NONE], batch)))
    IN  [ id |-> id,
          name |-> "AI Generated Structure",
          root_path |-> root_path,
          areas |-> [i \in 1..Len(areas) |-> renumber_area(areas[i])],
          created_at |-> now,
          modified_at |-> now ]

-----------------------------------------------------------------------------
(* johnny_decimal.rs: validate_structure *)

\* u8 addition: with overflow checks (the debug profile) a sum above 255
\* panics, without them (the release profile) it wraps.
u8_overflows(a, b) == a + b > 255
u8_wrapping(a, b) == (a + b) % 256

\* the item loop of a category: one item_numbering warning per item whose
\* number is not format!("{}.{:02}", category.number, i + 1)
item_warnings(category) ==
    LET Misnumbered(i) == category.items[i].number # item_number(category.number, i)
        bad == SelectSeq([i \in 1..Len(category.items) |-> i], Misnumbered)
    IN  [ k \in 1..Len(bad) |->
            [ warning_type |-> "item_numbering",
              message |-> <<"Item number ", category.items[bad[k]].number,
                            " should be ", item_number(category.number, bad[k]),
                            " for sequential numbering">>,
              suggestion |-> <<"Renumber to ",
                               item_number(category.number, bad[k])>> ] ]

\* most items a category holds without a too_many_items warning
MAX_ITEMS == 99

\* the body of `for category in &area.categories`
validate_category(acc, area, category, prof) ==
    LET below == category.number < area.number
        \* `||` evaluates area.number + 10 only when the first test is false
        sum_overflows == ~below /\ u8_overflows(area.number, 10)
        out_of_range == below \/ category.number >= u8_wrapping(area.number, 10)
        \* the message formats area.number + 9
        msg_overflows == out_of_range /\ u8_overflows(area.number, 9)
        panics == prof = "debug" /\ (sum_overflows \/ msg_overflows)
        range_error ==
            IF out_of_range
            THEN << [ error_type |-> "invalid_category_number",
                      message |-> <<"Category number ", category.number,
                                    " is outside valid range for area ", area.number,
                                    " (", area.number, "-", u8_wrapping(area.number, 9), ")">>,
                      area_number |-> area.number,
                      category_number |-> category.number ] >>
            ELSE <<>>
        duplicate_error ==
            IF category.number \in acc.used_category_numbers
            THEN << [ error_type |-> "duplicate_category_number",
                      message |-> <<"Category number ", category.number,
                                    " is used multiple times">>,
                      area_number |-> area.number,
                      category_number |-> category.number ] >>
            ELSE <<>>
        many_warning ==
            IF Len(category.items) > MAX_ITEMS
            THEN << [ warning_type |-> "too_many_items",
                      message |-> <<"Category ", category.number, " has ",
                                    Len(category.items),
                                    " items. Consider splitting into multiple categories.">>,
                      suggestion |-> <<"Split large categories for better organization">> ] >>
            ELSE <<>>
    IN  IF acc.panicked \/ panics THEN [acc EXCEPT !.panicked = TRUE]
        ELSE [ acc EXCEPT
                 !.errors = @ \o range_error \o duplicate_error,
                 !.used_category_numbers = @ \cup {category.number},
                 !.warnings = @ \o item_warnings(category) \o many_warning ]

RECURSIVE validate_categories(_, _, _, _)
validate_categories(acc, area, i, prof) ==
    IF i > Len(area.categories) THEN acc
    ELSE validate_categories(validate_category(acc, area, area.categories[i], prof),
                             area, i + 1, prof)

\* the body of the area loop with the duplicate check before the range check
Mutant_validate_area(acc, area, prof) ==
    LET number_error ==
            IF area.number % 10 # 0 \/ area.number < 10 \/ area.number > 90
            THEN << [ error_type |-> "invalid_area_number",
                      message |-> <<"Area number ", area.number,
                                    " is invalid. Must be 10, 20, 30, ..., 90">>,
                      area_number |-> area.number,
                      category_number |-> NONE ] >>
            ELSE <<>>
        duplicate_error ==
            IF area.number \in acc.used_area_numbers
            THEN << [ error_type |-> "duplicate_area_number",
                      message |-> <<"Area number ", area.number, " is used multiple times">>,
                      area_number |-> area.number,
                      category_number |-> NONE ] >>
            ELSE <<>>
        acc1 == [ acc EXCEPT
                    !.errors = @ \o duplicate_error \o number_error,
                    !.used_area_numbers = @ \cup {area.number} ]
        acc2 == validate_categories(acc1, area, 1, prof)
        empty_warning ==
            IF Len(area.categories) = 0
            THEN << [ warning_type |-> "empty_area",
                      message |-> <<"Area ", area.number, " has no categories">>,
                      suggestion |-> <<"Consider removing empty areas or adding categories">> ] >>
            ELSE <<>>
    IN  IF acc2.panicked THEN acc2
        ELSE [acc2 EXCEPT !.warnings = @ \o empty_warning]

\* the body of `for area in &structure.areas`
validate_area(acc, area, prof) ==
    LET number_error ==
            IF area.number % 10 # 0 \/ area.number < 10 \/ area.number > 90
            THEN << [ error_type |-> "invalid_area_number",
                      message |-> <<"Area number ", area.number,
                                    " is invalid. Must be 10, 20, 30, ..., 90">>,
                      area_number |-> area.number,
                      category_number |-> NONE ] >>
            ELSE <<>>
        duplicate_error ==
            IF area.number \in acc.used_area_numbers
            THEN << [ error_type |-> "duplicate_area_number",
                      message |-> <<"Area number ", area.number, " is used multiple times">>,
                      area_number |-> area.number,
                      category_number |-> NONE ] >>
            ELSE <<>>
        acc1 == [ acc EXCEPT
                    !.errors = @ \o number_error \o duplicate_error,
                    !.used_area_numbers = @ \cup {area.number} ]
        acc2 == validate_categories(acc1, area, 1, prof)
        empty_warning ==
            IF Len(area.categories) = 0
            THEN << [ warning_type |-> "empty_area",
                      message |-> <<"Area ", area.number, " has no categories">>,
                      suggestion |-> <<"Consider removing empty areas or adding categories">> ] >>
            ELSE <<>>
    IN  IF acc2.panicked THEN acc2
        ELSE [acc2 EXCEPT !.warnings = @ \o empty_warning]

RECURSIVE validate_areas(_, _, _, _)
validate_areas(acc, areas, i, prof) ==
    IF i > Len(areas) THEN acc
    ELSE validate_areas(validate_area(acc, areas[i], prof), areas, i + 1, prof)

\* validate_structure with the flag computed from errors and warnings alike
Mutant_validate_structure(s, prof) ==
    LET acc == validate_areas([ errors |-> <<>>, warnings |-> <<>>,
                                used_area_numbers |-> {},
                                used_category_numbers |-> {},
                                panicked |-> FALSE ],
                              s.areas, 1, prof)
    IN  IF acc.panicked
        THEN [kind |-> "panic", is_valid |-> FALSE, errors |-> <<>>, warnings |-> <<>>]
        ELSE [ kind |-> "ok",
               is_valid |-> acc.errors = <<>> /\ acc.warnings = <<>>,
               errors |-> acc.errors,
               warnings |-> acc.warnings ]

validate_structure(s, prof) ==
    LET acc == validate_areas([ errors |-> <<>>, warnings |-> <<>>,
                                used_area_numbers |-> {},
                                used_category_numbers |-> {},
                                panicked |-> FALSE ],
                              s.areas, 1, prof)
    IN  IF acc.panicked
        THEN [kind |-> "panic", is_valid |-> FALSE, errors |-> <<>>, warnings |-> <<>>]
        ELSE [ kind |-> "ok",
               is_valid |-> acc.errors = <<>>,
               errors |-> acc.errors,
               warnings |-> acc.warnings ]

-----------------------------------------------------------------------------
(* JohnnyDecimalEngine::categorize_file *)

\* the characters of the lower-cased labels and category names
chars(s) ==
    CASE s = "reports and documents" ->
           <<"r", "e", "p", "o", "r", "t", "s", " ", "a", "n", "d", " ",
             "d", "o", "c", "u", "m", "e", "n", "t", "s">>
      [] s = "text documents" ->
           <<"t", "e", "x", "t", " ", "d", "o", "c", "u", "m", "e", "n",
             "t", "s">>
      [] s = "spreadsheets" ->
           <<"s", "p", "r", "e", "a", "d", "s", "h", "e", "e", "t", "s">>
      [] s = "presentations" ->
           <<"p", "r", "e", "s", "e", "n", "t", "a", "t", "i", "o", "n",
             "s">>
      [] s = "images" ->
           <<"i", "m", "a", "g", "e", "s">>
      [] s = "videos" ->
           <<"v", "i", "d", "e", "o", "s">>
      [] s = "audio" ->
           <<"a", "u", "d", "i", "o">>
      [] s = "source code" ->
           <<"s", "o", "u", "r", "c", "e", " ", "c", "o", "d", "e">>
      [] s = "web files" ->
           <<"w", "e", "b", " ", "f", "i", "l", "e", "s">>
      [] s = "configuration" ->
           <<"c", "o", "n", "f", "i", "g", "u", "r", "a", "t", "i", "o",
             "n">>
      [] s = "compressed files" ->
           <<"c", "o", "m", "p", "r", "e", "s", "s", "e", "d", " ", "f",
             "i", "l", "e", "s">>
      [] s = "miscellaneous" ->
           <<"m", "i", "s", "c", "e", "l", "l", "a", "n", "e", "o", "u",
             "s">>
      [] s = "archived reports and documents" ->
           <<"a", "r", "c", "h", "i", "v", "e", "d", " ", "r", "e", "p",
             "o", "r", "t", "s", " ", "a", "n", "d", " ", "d", "o", "c",
             "u", "m", "e", "n", "t", "s">>

\* str::contains: needle occurs in haystack as a run of characters
str_contains(haystack, needle) ==
    LET h == chars(haystack)
        n == chars(needle)
    IN  \E i \in 0..(Len(h) - Len(n)) : SubSeq(h, i + 1, i + Len(n)) = n

\* confidence of an assignment found in the structure / of the fallback
MATCH_CONFIDENCE == 85
MISC_CONFIDENCE == 50

\* Iterator::find over the positions whose element satisfies the closure
\* (0: None); this variant returns the last one
Mutant_iter_find(hits) ==
    IF hits = {} THEN 0 ELSE CHOOSE i \in hits : \A j \in hits : j <= i

\* Iterator::find: of the positions whose element satisfies the closure, the
\* first one; 0 for None
iter_find(hits) ==
    IF hits = {} THEN 0 ELSE CHOOSE i \in hits : \A j \in hits : i <= j

\* the lookup with the builder's unwrap_or((90, "Miscellaneous")) added
Mutant_mappings_get(extension) ==
    IF extension \in DOMAIN file_type_mappings
    THEN [some |-> TRUE, v |-> file_type_mappings[extension]]
    ELSE [some |-> TRUE, v |-> <<90, "Miscellaneous">>]

\* self.file_type_mappings.get(&extension)
mappings_get(extension) ==
    IF extension \in DOMAIN file_type_mappings
    THEN [some |-> TRUE, v |-> file_type_mappings[extension]]
    ELSE [some |-> FALSE, v |-> NONE]

\* "Fallback to miscellaneous"
miscellaneous(extension) ==
    [ kind |-> "ok",
      area_number |-> 90,
      category_number |-> 91,
      item_number |-> <<"9", "1", ".", "0", "1">>,
      confidence |-> MISC_CONFIDENCE,
      reasoning |-> <<"No specific category found for extension '", extension,
                      "', assigned to miscellaneous">> ]

\* a categorize_file that takes the first category of the area instead of
\* the one whose name contains the label
Mutant_categorize_file(file_info, s) ==
    LET extension == to_lowercase(as_str_or(file_info, "extension", ""))
        found == mappings_get(extension)
    IN  IF ~found.some THEN miscellaneous(extension)
        ELSE
          LET area_number == found.v[1]
              category_name == found.v[2]
              a == iter_find({i \in 1..Len(s.areas) :
                                 s.areas[i].number = area_number})
          IN  IF a = 0 THEN miscellaneous(extension)
              ELSE
                LET area == s.areas[a]
                    c == iter_find(1..Len(area.categories))
                IN  IF c = 0 THEN miscellaneous(extension)
                    ELSE
                      LET category == area.categories[c]
                      IN  [ kind |-> "ok",
                            area_number |-> area_number,
                            category_number |-> category.number,
                            item_number |->
                                IF Len(category.items) > 0
                                THEN category.items[1].number
                                ELSE decimal(category.number) \o <<".", "0", "1">>,
                            confidence |-> MATCH_CONFIDENCE,
                            reasoning |-> <<"File extension '", extension,
                                            "' matches category '", category_name,
                                            "' in area ", area_number>> ]

categorize_file(file_info, s) ==
    LET extension == to_lowercase(as_str_or(file_info, "extension", ""))
        found == mappings_get(extension)
    IN  IF ~found.some THEN miscellaneous(extension)
        ELSE
          LET area_number == found.v[1]
              category_name == found.v[2]
              a == iter_find({i \in 1..Len(s.areas) :
                                 s.areas[i].number = area_number})
          IN  IF a = 0 THEN miscellaneous(extension)
              ELSE
                LET area == s.areas[a]
                    c == iter_find({i \in 1..Len(area.categories) :
                                       str_contains(
                                           to_lowercase(area.categories[i].name),
                                           to_lowercase(category_name))})
                IN  IF c = 0 THEN miscellaneous(extension)
                    ELSE
                      LET category == area.categories[c]
                      IN  [ kind |-> "ok",
                            area_number |-> area_number,
                            category_number |-> category.number,
                            item_number |->
                                IF Len(category.items) > 0
                                THEN category.items[1].number
                                ELSE decimal(category.number) \o <<".", "0", "1">>,
                            confidence |-> MATCH_CONFIDENCE,
                            reasoning |-> <<"File extension '", extension,
                                            "' matches category '", category_name,
                                            "' in area ", area_number>> ]

-----------------------------------------------------------------------------
(* SpecBuild: a batch is built, and the built structure validated *)

\* serde_json values of a file descriptor
Str(v) == [t |-> "str", v |-> v]

BatchExtensions == {"pdf", "doc", "Jpg", "xyz"}
BatchPaths == {"/a/one", "/a/two"}

\* descriptors with and without an extension, with and without a path
Descriptors ==
    { [k \in {"extension", "path"} |-> IF k = "extension" THEN Str(e) ELSE Str(p)] :
        e \in BatchExtensions, p \in BatchPaths }
    \cup { [k \in {"extension"} |-> Str(e)] : e \in BatchExtensions }
    \cup { [k \in {"path"} |-> Str(p)] : p \in BatchPaths }
    \cup { EmptyMap }

Batches == UNION {[1..n -> Descriptors] : n \in 0..MaxBatch}

InitBuild ==
    /\ is_running = FALSE
    /\ current_model = NONE
    /\ pc = "idle"
    /\ request = NoRequest
    /\ last = Idle
    /\ response = <<>>
    /\ parsed = NotParsed
    /\ files \in Batches
    /\ profile \in {"debug", "release"}
    /\ structure = NoStructure
    /\ validation = NoValidation
    /\ assignment = NoAssignment
    /\ validations = 0
    /\ calls = NoCalls
    /\ store = {}
    /\ loaded = NotLoaded

\* create_structure(files, root_path): the id is a fresh UUID and both
\* timestamps are the time of the call
Build ==
    /\ structure.id = NONE
    /\ structure' = create_structure(files, "/test", "now", "uuid")
    /\ UNCHANGED <<files, profile, validation, assignment, validations, svcVars, parseVars, callVars, dbVars>>

Validate ==
    /\ structure.id # NONE
    /\ validation.kind = "none"
    /\ validation' = validate_structure(structure, profile)
    /\ validations' = validations + 1
    /\ UNCHANGED <<files, profile, structure, assignment, svcVars, parseVars, callVars, dbVars>>

NextBuild == Build \/ Validate

SpecBuild == InitBuild /\ [][NextBuild]_vars

-----------------------------------------------------------------------------
(* SpecValidate: validate_structure on structures of any shape *)

\* most areas and categories, taken together, of a structure handed to
\* validate_structure or categorize_file
MaxNodes == 4

\* most validate_structure calls on one structure
MaxValidations == 2

\* a JDItem / JDCategory / JDArea / JDStructure as a caller may hand them in
Item(number) ==
    [number |-> number, name |-> <<"item">>, description |-> NONE, files |-> <<>>]

Category(number, name, items) ==
    [number |-> number, name |-> name, description |-> NONE, items |-> items]

Area(number, categories) ==
    [number |-> number, name |-> <<"area">>, description |-> NONE,
     categories |-> categories]

Structure(areas) ==
    [ id |-> "test", name |-> "Test Structure", root_path |-> "/test",
      areas |-> areas, created_at |-> "now", modified_at |-> "now" ]

\* every Vec<JDArea> of at most n areas and categories in all, the area
\* numbers taken from numbers and the categories from categories
RECURSIVE AreaLists(_, _, _)
AreaLists(n, numbers, categories) ==
    {<<>>} \cup
    UNION { { <<Area(a, cl)>> \o rest :
                a \in numbers,
                cl \in [1..t -> categories],
                rest \in AreaLists(n - 1 - t, numbers, categories) } :
            t \in 0..(n - 1) }

\* u8 area numbers: a valid one, one that is no multiple of ten, and one
\* above 90 whose decade ends beyond 255
ValidateAreaNumbers == {20, 25, 250}
\* u8 category numbers: inside 20..29 and 25..34, the first one after
\* 20..29, and inside 250..259
ValidateCategoryNumbers == {21, 30, 251}
\* item lists: none, and the items 21.01, 21.03 in that order
ValidateItemLists ==
    { <<>>,
      <<Item(<<"2", "1", ".", "0", "1">>), Item(<<"2", "1", ".", "0", "3">>)>> }

ValidateCategories ==
    {Category(n, "PDFs", items) : n \in ValidateCategoryNumbers, items \in ValidateItemLists}

\* a category of MAX_ITEMS + 1 items, the first and the last misnumbered
LargeItemList ==
    [i \in 1..(MAX_ITEMS + 1) |->
        Item(IF i \in {1, MAX_ITEMS + 1} THEN <<"2", "1", ".", "0", "0">>
             ELSE item_number(21, i))]

\* structures that hold such a category, alone and followed by a category
\* of the same number and an empty area of the same number
LargeStructures ==
    { Structure(<<Area(20, <<Category(21, "PDFs", LargeItemList)>>)>>),
      Structure(<<Area(25, <<Category(21, "PDFs", LargeItemList),
                             Category(21, "PDFs", <<Item(<<"2", "1", ".", "0", "3">>)>>)>>),
                  Area(25, <<>>)>>) }

ValidateStructures ==
    {Structure(areas) : areas \in AreaLists(MaxNodes, ValidateAreaNumbers, ValidateCategories)}
    \cup LargeStructures

\* the (area number, category number) of every category, in visit order
RECURSIVE Visits(_)
Visits(areas) ==
    IF areas = <<>> THEN <<>>
    ELSE [c \in 1..Len(areas[1].categories) |->
             <<areas[1].number, areas[1].categories[c].number>>]
         \o Visits(Tail(areas))

InitValidate ==
    /\ is_running = FALSE
    /\ current_model = NONE
    /\ pc = "idle"
    /\ request = NoRequest
    /\ last = Idle
    /\ response = <<>>
    /\ parsed = NotParsed
    /\ files = <<>>
    /\ profile \in {"debug", "release"}
    /\ structure \in ValidateStructures
    /\ validation = NoValidation
    /\ assignment = NoAssignment
    /\ validations = 0
    /\ calls = NoCalls
    /\ store = {}
    /\ loaded = NotLoaded

\* validate_structure called again, with the HashSets of seen numbers kept
\* from the call before instead of starting empty
Mutant_Revalidate ==
    /\ structure.id # NONE
    /\ validation.kind # "none"
    /\ validations < MaxValidations
    /\ LET seen == Visits(structure.areas)
           acc == validate_areas(
                      [ errors |-> <<>>, warnings |-> <<>>,
                        used_area_numbers |->
                            {structure.areas[i].number : i \in 1..Len(structure.areas)},
                        used_category_numbers |-> {seen[i][2] : i \in 1..Len(seen)},
                        panicked |-> FALSE ],
                      structure.areas, 1, profile)
       IN  validation' =
               IF acc.panicked
               THEN [kind |-> "panic", is_valid |-> FALSE, errors |-> <<>>, warnings |-> <<>>]
               ELSE [ kind |-> "ok", is_valid |-> acc.errors = <<>>,
                      errors |-> acc.errors, warnings |-> acc.warnings ]
    /\ validations' = validations + 1
    /\ UNCHANGED <<files, profile, structure, assignment, svcVars, parseVars, callVars, dbVars>>

\* validate_structure(&self, structure: &JDStructure) called again on the
\* structure it was called on before: the shared borrow leaves the structure
\* as it is, and errors, warnings and both HashSets start empty in every call
Revalidate ==
    /\ structure.id # NONE
    /\ validation.kind # "none"
    /\ validations < MaxValidations
    /\ validation' = validate_structure(structure, profile)
    /\ validations' = validations + 1
    /\ UNCHANGED <<files, profile, structure, assignment, svcVars, parseVars, callVars, dbVars>>

NextValidate == Validate \/ Revalidate

SpecValidate == InitValidate /\ [][NextValidate]_vars

-----------------------------------------------------------------------------
(* SpecAssign: categorize_file on structures of any shape *)

\* area numbers: the area of the pdf rule and the miscellaneous area
AssignAreaNumbers == {20, 90}
\* items whose first identifier is not {category}.01
AssignItemLists ==
    { <<>>,
      <<Item(<<"2", "2", ".", "0", "7">>), Item(<<"2", "2", ".", "0", "1">>)>> }
\* categories: the label of the pdf rule, a name that contains it in another
\* case, and Miscellaneous under a number that is not 91
AssignCategories ==
    UNION { { Category(22, "Reports and Documents", items),
              Category(23, "ARCHIVED REPORTS AND DOCUMENTS", items),
              Category(95, "Miscellaneous", items) } : items \in AssignItemLists }

AssignStructures ==
    {Structure(areas) : areas \in AreaLists(MaxNodes, AssignAreaNumbers, AssignCategories)}

\* file_info: a mapped extension in lower and in upper case, an unmapped
\* one, and no extension
AssignFiles ==
    { [k \in {"extension"} |-> Str(e)] : e \in {"pdf", "PDF", "xyz"} } \cup { EmptyMap }

InitAssign ==
    /\ is_running = FALSE
    /\ current_model = NONE
    /\ pc = "idle"
    /\ request = NoRequest
    /\ last = Idle
    /\ response = <<>>
    /\ parsed = NotParsed
    /\ files = <<>>
    /\ profile = "release"
    /\ structure \in AssignStructures
    /\ validation = NoValidation
    /\ assignment = NoAssignment
    /\ validations = 0
    /\ calls = NoCalls
    /\ store = {}
    /\ loaded = NotLoaded

Categorize ==
    /\ structure.id # NONE
    /\ assignment.kind = "none"
    /\ \E file_info \in AssignFiles :
           /\ files' = <<file_info>>
           /\ assignment' = categorize_file(file_info, structure)
    /\ UNCHANGED <<profile, structure, validation, validations, svcVars, parseVars, callVars, dbVars>>

NextAssign == Categorize

SpecAssign == InitAssign /\ [][NextAssign]_vars

-----------------------------------------------------------------------------
(* SpecAgree: a batch is built, and descriptors of the batch are assigned  *)
(* against the structure built from it                                      *)

\* extensions of several labels of area 20 and of other areas, one in upper
\* case, and an unmapped one
AgreeExtensions == {"pdf", "doc", "xls", "Jpg", "mp4", "rs", "xyz"}

AgreeDescriptors ==
    { [k \in {"extension"} |-> Str(e)] : e \in AgreeExtensions } \cup { EmptyMap }

AgreeBatches == UNION {[1..n -> AgreeDescriptors] : n \in 0..MaxBatch}

InitAgree ==
    /\ is_running = FALSE
    /\ current_model = NONE
    /\ pc = "idle"
    /\ request = NoRequest
    /\ last = Idle
    /\ response = <<>>
    /\ parsed = NotParsed
    /\ files \in AgreeBatches
    /\ profile = "release"
    /\ structure = NoStructure
    /\ validation = NoValidation
    /\ assignment = NoAssignment
    /\ validations = 0
    /\ calls = NoCalls
    /\ store = {}
    /\ loaded = NotLoaded

\* categorize_file(files[k], &structure) on the structure create_structure
\* returned for files
CategorizeBuilt ==
    /\ structure.id # NONE
    /\ \E k \in 1..Len(files) :
           /\ assignment' = categorize_file(files[k], structure)
           /\ last' = [op |-> "categorize_file", kind |-> "ok", cause |-> "none",
                       val |-> k]
    /\ UNCHANGED <<is_running, current_model, pc, request, response, parsed,
                   files, profile, structure, validation, validations,
                   callVars, dbVars>>

NextAgree == Build \/ CategorizeBuilt

SpecAgree == InitAgree /\ [][NextAgree]_vars

-----------------------------------------------------------------------------
(* SpecCalls: calls on one OllamaService in flight together.  A call holds   *)
(* its borrow of the service from the moment it begins until it returns;    *)
(* every .await of the source is a point where other calls may take steps.  *)

\* most callers holding a reference to the service
MaxCallers == 2

Callers == 1..MaxCallers

\* what analyze_file read of the service: (is_running, current_model)
NotSeen == [is_running |-> FALSE, current_model |-> NONE]

\* no call in flight, none returned yet
NoCall == [op |-> "none", phase |-> "none", seen |-> NotSeen, sent |-> 0,
           result |-> "none"]

\* the caller has no call in flight
Returned(c) == calls[c].op = "none"

\* a call in flight, at its first .await
Begun(op, phase, seen, sent) ==
    [op |-> op, phase |-> phase, seen |-> seen, sent |-> sent, result |-> "none"]

\* the call has returned with this result
Return(call, result) ==
    [op |-> "none", phase |-> "none", seen |-> call.seen, sent |-> call.sent,
     result |-> result]

\* a &mut self that any holder of a reference may take at any time (as
\* behind a RefCell or an UnsafeCell)
Mutant_borrow_mut(c) == Returned(c)

\* &mut self: the exclusive borrow is granted when no other borrow is live
borrow_mut(c) == \A d \in Callers : Returned(d)

\* &self: the shared borrow is granted when no exclusive borrow is live
borrow_shared(c) ==
    /\ Returned(c)
    /\ \A d \in Callers : calls[d].op \notin {"start", "stop"}

\* start(&mut self) up to is_service_available().await
call_start(c) ==
    /\ borrow_mut(c)
    /\ calls' = [calls EXCEPT ![c] = Begun("start", "probe", NotSeen, 0)]
    /\ UNCHANGED <<is_running, current_model>>

\* the first probe answers or its 5 s timeout fires; start_ollama_process
\* spawns or fails
start_probed(c, available, spawned) ==
    /\ calls[c].op = "start" /\ calls[c].phase = "probe"
    /\ IF available
       THEN /\ is_running' = TRUE
            /\ calls' = [calls EXCEPT ![c] = Return(@, "ok")]
       ELSE /\ is_running' = is_running
            /\ calls' = [calls EXCEPT ![c] =
                            IF spawned THEN [@ EXCEPT !.phase = "sleep"]
                            ELSE Return(@, "err")]
    /\ UNCHANGED current_model

\* tokio::time::sleep(3 s) is over
start_woke(c) ==
    /\ calls[c].op = "start" /\ calls[c].phase = "sleep"
    /\ calls' = [calls EXCEPT ![c].phase = "probe_again"]
    /\ UNCHANGED <<is_running, current_model>>

\* the second probe answers or its 5 s timeout fires; ensure_model_available
\* sends its GET /api/tags
start_probed_again(c, available) ==
    /\ calls[c].op = "start" /\ calls[c].phase = "probe_again"
    /\ IF available
       THEN /\ is_running' = TRUE
            /\ calls' = [calls EXCEPT ![c].phase = "tags"]
       ELSE /\ is_running' = is_running
            /\ calls' = [calls EXCEPT ![c] = Return(@, "err")]
    /\ UNCHANGED current_model

\* GET /api/tags of ensure_model_available has answered (no timeout bounds
\* the request or the reading of its body)
start_tags_replied(c, tags) ==
    /\ calls[c].op = "start" /\ calls[c].phase = "tags"
    /\ current_model' = ensure_model_available(is_running, current_model, tags,
                                               DEFAULT_MODEL)
    /\ calls' = [calls EXCEPT ![c] = Return(@, "ok")]
    /\ UNCHANGED is_running

\* stop(&mut self) has no .await
call_stop(c) ==
    /\ borrow_mut(c)
    /\ is_running' = FALSE
    /\ current_model' = NONE
    /\ calls' = [calls EXCEPT ![c] = Return(Begun("stop", "none", NotSeen, 0), "ok")]

\* a generate_send_done that sends the request again after a timeout
Mutant_generate_send_done(c, outcome) ==
    /\ calls[c].op = "analyze_file" /\ calls[c].phase = "send"
    /\ calls' = [calls EXCEPT ![c] =
                    IF outcome = "headers" THEN [@ EXCEPT !.phase = "body"]
                    ELSE IF outcome = "timeout" /\ @.sent < 2
                         THEN [@ EXCEPT !.sent = @ + 1]
                         ELSE Return(@, "rules")]
    /\ UNCHANGED <<is_running, current_model>>

\* analyze_file(&self) up to the .await of the generate request: is_running
\* and current_model are read with no .await in between
call_analyze_file(c) ==
    /\ borrow_shared(c)
    /\ LET seen == [is_running |-> is_running, current_model |-> current_model]
       IN  calls' = [calls EXCEPT ![c] =
                        IF ~is_running
                        THEN Return(Begun("analyze_file", "none", seen, 0), "err")
                        ELSE IF current_model = NONE
                             THEN Return(Begun("analyze_file", "none", seen, 0), "rules")
                             ELSE Begun("analyze_file", "send", seen, 1)]
    /\ UNCHANGED <<is_running, current_model>>

\* timeout(30 s, ...send()).await is over: the timeout fired, the transport
\* failed, the status is no success, or the headers of a success arrived
GenerateSendOutcomes == {"timeout", "transport", "http_status", "headers"}

generate_send_done(c, outcome) ==
    /\ calls[c].op = "analyze_file" /\ calls[c].phase = "send"
    /\ calls' = [calls EXCEPT ![c] =
                    IF outcome = "headers" THEN [@ EXCEPT !.phase = "body"]
                    ELSE Return(@, "rules")]
    /\ UNCHANGED <<is_running, current_model>>

\* response.json().await is over (no timeout bounds it): the body is no
\* JSON, has no "response" string, or carries the reply text
GenerateBodyOutcomes == {"body_not_json", "no_response_text", "text"}

generate_body_done(c, outcome) ==
    /\ calls[c].op = "analyze_file" /\ calls[c].phase = "body"
    /\ calls' = [calls EXCEPT ![c] =
                    Return(@, IF outcome = "text" THEN "reply" ELSE "rules")]
    /\ UNCHANGED <<is_running, current_model>>

\* get_status(&self) up to get_available_models().await
call_get_status(c) ==
    /\ borrow_shared(c)
    /\ calls' = [calls EXCEPT ![c] =
                    IF ~is_running
                    THEN Return(Begun("get_status", "none", NotSeen, 0), "ok")
                    ELSE Begun("get_status", "tags", NotSeen, 0)]
    /\ UNCHANGED <<is_running, current_model>>

\* GET /api/tags of get_status has answered (no timeout bounds it)
status_tags_replied(c) ==
    /\ calls[c].op = "get_status" /\ calls[c].phase = "tags"
    /\ calls' = [calls EXCEPT ![c] = Return(@, "ok")]
    /\ UNCHANGED <<is_running, current_model>>

InitCalls ==
    /\ is_running = FALSE
    /\ current_model = NONE
    /\ pc = "idle"
    /\ request = NoRequest
    /\ last = Idle
    /\ response = <<>>
    /\ parsed = NotParsed
    /\ files = <<>>
    /\ profile = "release"
    /\ structure = NoStructure
    /\ validation = NoValidation
    /\ assignment = NoAssignment
    /\ validations = 0
    /\ calls = [c \in Callers |-> NoCall]
    /\ store = {}
    /\ loaded = NotLoaded

CallsFrame == UNCHANGED <<pc, request, last, parseVars, buildVars, dbVars>>

NextCalls ==
    \/ \E c \in Callers : call_start(c) /\ CallsFrame
    \/ \E c \in Callers, available, spawned \in BOOLEAN :
           start_probed(c, available, spawned) /\ CallsFrame
    \/ \E c \in Callers : start_woke(c) /\ CallsFrame
    \/ \E c \in Callers, available \in BOOLEAN :
           start_probed_again(c, available) /\ CallsFrame
    \/ \E c \in Callers, tags \in TagsOutcomes :
           start_tags_replied(c, tags) /\ CallsFrame
    \/ \E c \in Callers : call_stop(c) /\ CallsFrame
    \/ \E c \in Callers : call_analyze_file(c) /\ CallsFrame
    \/ \E c \in Callers, outcome \in GenerateSendOutcomes :
           generate_send_done(c, outcome) /\ CallsFrame
    \/ \E c \in Callers, outcome \in GenerateBodyOutcomes :
           generate_body_done(c, outcome) /\ CallsFrame
    \/ \E c \in Callers : call_get_status(c) /\ CallsFrame
    \/ \E c \in Callers : status_tags_replied(c) /\ CallsFrame

SpecCalls == InitCalls /\ [][NextCalls]_vars

\* the steps that a timer of the source bounds: the probes (5 s), the sleep
\* (3 s) and the sending of the generate request (30 s)
TimedStep(c) ==
    \/ \E available, spawned \in BOOLEAN : start_probed(c, available, spawned) /\ CallsFrame
    \/ start_woke(c) /\ CallsFrame
    \/ \E available \in BOOLEAN : start_probed_again(c, available) /\ CallsFrame
    \/ \E outcome \in GenerateSendOutcomes : generate_send_done(c, outcome) /\ CallsFrame

SpecCallsFair == SpecCalls /\ \A c \in Callers : WF_vars(TimedStep(c))

-----------------------------------------------------------------------------
(* SpecStore: DatabaseManager save_structure / load_structure (database.rs). *)
(* The data column holds serde_json::to_string(structure); a JSON text is    *)
(* kept as the tree of its values.                                          *)

\* serde_json values
Num(v) == [t |-> "num", v |-> v]
Null == [t |-> "null", v |-> NONE]
Arr(v) == [t |-> "arr", v |-> v]
Obj(v) == [t |-> "obj", v |-> v]

\* Serialize for Option<String>: null or the string
ser_option(x) == IF x = NONE THEN Null ELSE Str(x)

\* a timestamp written with whole seconds only
Mutant_ser_datetime(t) == Str(<<t.secs, 0>>)

\* Serialize for DateTime<Utc>: the RFC 3339 text, written with the
\* nanoseconds of the value
ser_datetime(t) == Str(<<t.secs, t.nanos>>)

ser_strings(seq) == Arr([i \in 1..Len(seq) |-> Str(seq[i])])

ser_item(item) ==
    Obj([k \in {"number", "name", "description", "files"} |->
            CASE k = "number" -> Str(item.number)
              [] k = "name" -> Str(item.name)
              [] k = "description" -> ser_option(item.description)
              [] k = "files" -> ser_strings(item.files)])

ser_category(category) ==
    Obj([k \in {"number", "name", "description", "items"} |->
            CASE k = "number" -> Num(category.number)
              [] k = "name" -> Str(category.name)
              [] k = "description" -> ser_option(category.description)
              [] k = "items" ->
                    Arr([i \in 1..Len(category.items) |-> ser_item(category.items[i])])])

ser_area(area) ==
    Obj([k \in {"number", "name", "description", "categories"} |->
            CASE k = "number" -> Num(area.number)
              [] k = "name" -> Str(area.name)
              [] k = "description" -> ser_option(area.description)
              [] k = "categories" ->
                    Arr([i \in 1..Len(area.categories) |->
                            ser_category(area.categories[i])])])

\* serde_json::to_string(structure)
to_string(s) ==
    Obj([k \in {"id", "name", "root_path", "areas", "created_at", "modified_at"} |->
            CASE k = "id" -> Str(s.id)
              [] k = "name" -> Str(s.name)
              [] k = "root_path" -> Str(s.root_path)
              [] k = "areas" -> Arr([i \in 1..Len(s.areas) |-> ser_area(s.areas[i])])
              [] k = "created_at" -> ser_datetime(s.created_at)
              [] k = "modified_at" -> ser_datetime(s.modified_at)])

\* Deserialize: a struct is read from an object that has its fields
has_fields(j, fields) == j.t = "obj" /\ fields \subseteq DOMAIN j.v
is_string(j) == j.t = "str"
is_option(j) == j.t \in {"null", "str"}
is_u8(j) == j.t = "num" /\ j.v \in 0..255
is_strings(j) == j.t = "arr" /\ \A i \in 1..Len(j.v) : is_string(j.v[i])

is_item(j) ==
    /\ has_fields(j, {"number", "name", "description", "files"})
    /\ is_string(j.v["number"]) /\ is_string(j.v["name"])
    /\ is_option(j.v["description"]) /\ is_strings(j.v["files"])

is_category(j) ==
    /\ has_fields(j, {"number", "name", "description", "items"})
    /\ is_u8(j.v["number"]) /\ is_string(j.v["name"])
    /\ is_option(j.v["description"])
    /\ j.v["items"].t = "arr"
    /\ \A i \in 1..Len(j.v["items"].v) : is_item(j.v["items"].v[i])

is_area(j) ==
    /\ has_fields(j, {"number", "name", "description", "categories"})
    /\ is_u8(j.v["number"]) /\ is_string(j.v["name"])
    /\ is_option(j.v["description"])
    /\ j.v["categories"].t = "arr"
    /\ \A i \in 1..Len(j.v["categories"].v) : is_category(j.v["categories"].v[i])

is_structure(j) ==
    /\ has_fields(j, {"id", "name", "root_path", "areas", "created_at", "modified_at"})
    /\ is_string(j.v["id"]) /\ is_string(j.v["name"]) /\ is_string(j.v["root_path"])
    /\ is_string(j.v["created_at"]) /\ is_string(j.v["modified_at"])
    /\ j.v["areas"].t = "arr"
    /\ \A i \in 1..Len(j.v["areas"].v) : is_area(j.v["areas"].v[i])

de_option(j) == IF j.t = "null" THEN NONE ELSE j.v
de_datetime(j) == [secs |-> j.v[1], nanos |-> j.v[2]]
de_strings(j) == [i \in 1..Len(j.v) |-> j.v[i].v]

de_item(j) ==
    [ number |-> j.v["number"].v, name |-> j.v["name"].v,
      description |-> de_option(j.v["description"]),
      files |-> de_strings(j.v["files"]) ]

de_category(j) ==
    [ number |-> j.v["number"].v, name |-> j.v["name"].v,
      description |-> de_option(j.v["description"]),
      items |-> [i \in 1..Len(j.v["items"].v) |-> de_item(j.v["items"].v[i])] ]

de_area(j) ==
    [ number |-> j.v["number"].v, name |-> j.v["name"].v,
      description |-> de_option(j.v["description"]),
      categories |-> [i \in 1..Len(j.v["categories"].v) |->
                         de_category(j.v["categories"].v[i])] ]

\* serde_json::from_str::<JDStructure>(&data)
from_str_structure(j) ==
    IF is_structure(j)
    THEN [ ok |-> TRUE,
           v |-> [ id |-> j.v["id"].v, name |-> j.v["name"].v,
                   root_path |-> j.v["root_path"].v,
                   areas |-> [i \in 1..Len(j.v["areas"].v) |-> de_area(j.v["areas"].v[i])],
                   created_at |-> de_datetime(j.v["created_at"]),
                   modified_at |-> de_datetime(j.v["modified_at"]) ] ]
    ELSE [ok |-> FALSE, v |-> NoStructure]

\* INSERT OR REPLACE INTO jd_structures: id is the primary key
insert_or_replace(rows, row) ==
    {r \in rows : r.id # row.id} \cup {row}

\* SELECT data FROM jd_structures WHERE id = ?1
select_data(rows, structure_id) ==
    {r.data : r \in {q \in rows : q.id = structure_id}}

\* DateTime<Utc> values: two instants of the same second
StoreTimes == {[secs |-> 1, nanos |-> 0], [secs |-> 1, nanos |-> 5]}
StoreIds == {"id-a", "id-b"}
\* areas: none; an area with a category, an item with a description and
\* file paths; an area with no description
StoreAreas ==
    { <<>>,
      << Area(20, << Category(21, "PDFs",
                        << [ Item(<<"2", "1", ".", "0", "1">>) EXCEPT
                               !.description = "Collection of pdfs",
                               !.files = <<"/a/one", "/a/two">> ] >>) >>) >>,
      << Area(250, <<>>), Area(20, <<>>) >> }

StoreStructures ==
    { [ Structure(areas) EXCEPT !.id = id, !.created_at = [secs |-> 1, nanos |-> 0],
                                !.modified_at = t ] :
        areas \in StoreAreas, id \in StoreIds, t \in StoreTimes }

InitStore ==
    /\ is_running = FALSE
    /\ current_model = NONE
    /\ pc = "idle"
    /\ request = NoRequest
    /\ last = Idle
    /\ response = <<>>
    /\ parsed = NotParsed
    /\ files = <<>>
    /\ profile = "release"
    /\ structure = NoStructure
    /\ validation = NoValidation
    /\ assignment = NoAssignment
    /\ validations = 0
    /\ calls = NoCalls
    /\ store = {}
    /\ loaded = NotLoaded

StoreFrame ==
    UNCHANGED <<is_running, current_model, pc, request, parseVars, files, profile,
                validation, assignment, validations, callVars>>

\* save_structure(&self, structure).  opened: Connection::open and the
\* statement succeed.  structure is the value last saved.
save_structure(s, opened) ==
    /\ IF opened
       THEN /\ store' = insert_or_replace(store,
                            [ id |-> s.id, name |-> s.name, root_path |-> s.root_path,
                              data |-> to_string(s),
                              created_at |-> ser_datetime(s.created_at).v,
                              modified_at |-> ser_datetime(s.modified_at).v ])
            /\ structure' = s
            /\ last' = [op |-> "save_structure", kind |-> "ok", cause |-> "none",
                        val |-> s.id]
       ELSE /\ UNCHANGED <<store, structure>>
            /\ last' = [op |-> "save_structure", kind |-> "err", cause |-> "sqlite",
                        val |-> s.id]
    /\ UNCHANGED loaded
    /\ StoreFrame

\* load_structure(&self, structure_id)
load_structure(structure_id, opened) ==
    /\ LET found == select_data(store, structure_id)
           decoded == from_str_structure(CHOOSE d \in found : TRUE)
       IN  IF ~opened
           THEN /\ last' = [op |-> "load_structure", kind |-> "err", cause |-> "sqlite",
                            val |-> structure_id]
                /\ UNCHANGED loaded
           ELSE IF found = {}
                THEN /\ last' = [op |-> "load_structure", kind |-> "ok",
                                 cause |-> "none", val |-> structure_id]
                     /\ loaded' = [kind |-> "missing"]
                ELSE IF decoded.ok
                     THEN /\ last' = [op |-> "load_structure", kind |-> "ok",
                                      cause |-> "none", val |-> structure_id]
                          /\ loaded' = [kind |-> "some", val |-> decoded.v]
                     ELSE /\ last' = [op |-> "load_structure", kind |-> "err",
                                      cause |-> "json", val |-> structure_id]
                          /\ UNCHANGED loaded
    /\ UNCHANGED <<store, structure>>
    /\ StoreFrame

NextStore ==
    \/ \E s \in StoreStructures, opened \in BOOLEAN : save_structure(s, opened)
    \/ \E structure_id \in StoreIds, opened \in BOOLEAN :
           load_structure(structure_id, opened)

SpecStore == InitStore /\ [][NextStore]_vars

-----------------------------------------------------------------------------
(* Properties of the classifier (Spec) and of the reply parser (SpecParse) *)

Range(seq) == {seq[i] : i \in 1..Len(seq)}

\* a classify call has returned
Classified == last.op = "analyze_file" /\ last.kind # "pending"

\* C1: classify never fails: every classify call returns a suggestion, never
\* an error and never an abort, and when the classifier is not running the
\* suggestion is the rule-based one.
C1_ClassifyNeverFails ==
    Classified =>
        /\ last.kind = "ok"
        /\ last.cause = "not_running" =>
              last.val = rule_based_analysis(request).val

\* C2: when the classifier is running and the inference call fails (no model
\* selected, timeout, transport error, non-success status, a body that is no
\* JSON or carries no response text), classify returns exactly the rule-based
\* suggestion for the file: confidence 0.75, reasoning naming the extension,
\* tags holding the extension and the fallback marker.
C2_FailureFallsBackToRules ==
    (Classified /\ last.cause \in GenerateFailures \cup {"no_model"}) =>
        /\ last.kind = "ok"
        /\ last.val = rule_based_analysis(request).val
        /\ last.val.suggested_category = rule_category(request.file_extension)
        /\ last.val.confidence = 75
        /\ request.file_extension \in Range(last.val.reasoning)
        /\ {request.file_extension, "rule-based"} \subseteq Range(last.val.tags)

\* a running classifier with a model selected timed out on a pdf
C2_Witness ==
    /\ Classified
    /\ is_running
    /\ current_model # NONE
    /\ last.cause = "timeout"
    /\ request.file_extension = "pdf"
    /\ last.kind = "ok"
    /\ last.val.confidence = 75

\* C3: after a start() that returned a failure the classifier is not running.
C3_FailedStartNotRunning ==
    (last.op = "start" /\ last.kind = "err") => ~is_running

\* C4: every suggestion classify returns has a confidence within [0.0, 1.0].
C4_ConfidenceInRange ==
    (Classified /\ last.kind = "ok") =>
        (0 <= last.val.confidence /\ last.val.confidence <= 100)

\* the structured parse of a reply is not possible: no "{", no "}", the last
\* "}" before the first "{", or no valid JSON between them
NoStructuredParse(text) ==
    \/ find(text, LB) = 0
    \/ rfind(text, RB) = 0
    \/ rfind(text, RB) < find(text, LB)
    \/ ~from_str(SubSeq(text, find(text, LB), rfind(text, RB))).ok

\* C5: parsing yields a suggestion for every raw reply, never an abort, and
\* when the structured parse is not possible it is the keyword-heuristic
\* suggestion with confidence 0.6: documents first, else media/images, else
\* miscellaneous.
C5_ParseAlwaysYields ==
    parsed.kind # "none" =>
        /\ parsed.kind = "ok"
        /\ NoStructuredParse(response) =>
              /\ parsed.val.confidence = 60
              /\ parsed.val.suggested_category =
                    IF \E i \in 1..Len(response) : token_contains(response[i], "Documents")
                    THEN "20-29 Documents/21 Text Documents"
                    ELSE IF \E i \in 1..Len(response) :
                               \/ token_contains(response[i], "Media")
                               \/ token_contains(response[i], "Images")
                         THEN "30-39 Media/31 Images"
                         ELSE "90-99 Miscellaneous/91 Other Files"

\* the area (decade) a suggested category names
DecadeOf(category) ==
    CASE category \in {"20-29 Documents/21 Text Documents",
                       "20-29 Documents/22 Spreadsheets",
                       "20-29 Documents/23 Presentations"} -> 20
      [] category \in {"30-39 Media/31 Images", "30-39 Media/32 Videos",
                       "30-39 Media/33 Audio"} -> 30
      [] category \in {"40-49 Archives/41 Compressed Files",
                       "40-49 Archives/42 Installers"} -> 40
      [] category = "90-99 Miscellaneous/91 Other Files" -> 90

\* C6: the rule-based classifier and the structure builder share one rule
\* table: the area named in the rule-based suggestion for an extension is the
\* area the builder resolves for it, and the extension is unmapped for the
\* one exactly when it is unmapped for the other.
C6_OneRuleTable ==
    (Classified /\ last.kind = "ok" /\ last.cause # "none") =>
        LET descriptor == [k \in {"extension"} |-> Str(request.file_extension)]
        IN  /\ DecadeOf(last.val.suggested_category) = resolve(descriptor)[1]
            /\ (last.val.suggested_category = MISC_CATEGORY)
                  <=> (to_lowercase(request.file_extension) \notin DOMAIN file_type_mappings)

-----------------------------------------------------------------------------
(* Properties of the structure builder (SpecBuild) *)

Built == structure.id # NONE
Validated == validation.kind # "none"

Digit(n) == <<"0", "1", "2", "3", "4", "5", "6", "7", "8", "9">>[n + 1]

\* "{category}.{sequence:02}" for a two-digit category and a sequence below 100
Identifier(category, sequence) ==
    <<Digit(category \div 10), Digit(category % 10), ".",
      Digit(sequence \div 10), Digit(sequence % 10)>>

WarningKinds == {validation.warnings[i].warning_type : i \in 1..Len(validation.warnings)}
ErrorKinds == {validation.errors[i].error_type : i \in 1..Len(validation.errors)}

\* the (area position, category position) pairs of the built structure
CategoryPositions ==
    {<<a, c>> \in (1..Len(structure.areas)) \X (1..4) :
        c <= Len(structure.areas[a].categories)}

CategoryAt(p) == structure.areas[p[1]].categories[p[2]]

\* C7: in a built structure every category's item identifiers are
\* {category.number}.01 .. {category.number}.NN in stored order, and
\* validating it yields no item_numbering warning.
C7_ItemsNumberedInSequence ==
    /\ Built =>
          \A p \in CategoryPositions :
             \A j \in 1..Len(CategoryAt(p).items) :
                CategoryAt(p).items[j].number = Identifier(CategoryAt(p).number, j)
    /\ Validated =>
          /\ validation.kind = "ok"
          /\ "item_numbering" \notin WarningKinds

\* a validated structure with a second category in an area, which is the one
\* whose items had to be renumbered
C7_Witness ==
    /\ Validated
    /\ \E p \in CategoryPositions :
          /\ p[2] = 2
          /\ CategoryAt(p).items[1].number = Identifier(structure.areas[p[1]].number + 2, 1)
          /\ Len(CategoryAt(p).items[1].files) >= 1

\* C8: in a built structure no two areas have the same number and no two
\* categories anywhere have the same number, and validation reports neither
\* duplicate_area_number nor duplicate_category_number.
C8_NumbersUnique ==
    /\ Built =>
          /\ \A a, b \in 1..Len(structure.areas) :
                structure.areas[a].number = structure.areas[b].number => a = b
          /\ \A p, q \in CategoryPositions :
                CategoryAt(p).number = CategoryAt(q).number => p = q
    /\ Validated =>
          /\ validation.kind = "ok"
          /\ ErrorKinds \cap {"duplicate_area_number", "duplicate_category_number"} = {}

\* a validated structure of two areas, one of them with two categories
C8_Witness ==
    /\ Validated
    /\ Len(structure.areas) >= 2
    /\ \E a \in 1..Len(structure.areas) : Len(structure.areas[a].categories) >= 2
    /\ validation.errors = <<>>

\* the descriptors of the batch that resolve into area n
ResolvedInto(n) == {i \in 1..Len(files) : resolve(files[i])[1] = n}

\* C9: the areas of the built structure are the distinct area numbers the rule
\* table resolves for the batch's extensions, in ascending order; each area
\* holds one category per distinct label resolved into it, and each category
\* holds exactly one item.
C9_AreasAndCategoriesOfBatch ==
    Built =>
        /\ {structure.areas[a].number : a \in 1..Len(structure.areas)}
              = {resolve(files[i])[1] : i \in 1..Len(files)}
        /\ \A a, b \in 1..Len(structure.areas) :
              a < b => structure.areas[a].number < structure.areas[b].number
        /\ \A a \in 1..Len(structure.areas) :
              LET area == structure.areas[a]
                  labels == {resolve(files[i])[2] : i \in ResolvedInto(area.number)}
              IN  /\ {area.categories[c].name : c \in 1..Len(area.categories)} = labels
                  /\ Len(area.categories) = Cardinality(labels)
                  /\ \A c \in 1..Len(area.categories) : Len(area.categories[c].items) = 1

\* the batch of one jpg and one pdf, in that order, built into areas 20 and
\* 30, each of one category with one item holding one path
C9_Witness ==
    /\ Built
    /\ Len(files) = 2
    /\ as_str_or(files[1], "extension", "") = "Jpg"
    /\ as_str_or(files[2], "extension", "") = "pdf"
    /\ Len(structure.areas) = 2
    /\ structure.areas[1].number = 20
    /\ structure.areas[2].number = 30
    /\ \A a \in 1..2 :
          /\ Len(structure.areas[a].categories) = 1
          /\ Len(structure.areas[a].categories[1].items) = 1
          /\ Len(structure.areas[a].categories[1].items[1].files) = 1

\* C10: a malformed descriptor never distorts a batch build: every descriptor
\* that carries a path has it stored in the first item of the category of its
\* resolved label (the default label when the extension is missing), whatever
\* the other descriptors of the batch lack.
C10_EveryPathIsStored ==
    Built =>
        \A i \in 1..Len(files) :
            "path" \in DOMAIN files[i] =>
                \E a \in 1..Len(structure.areas) :
                    /\ structure.areas[a].number = resolve(files[i])[1]
                    /\ \E c \in 1..Len(structure.areas[a].categories) :
                          LET category == structure.areas[a].categories[c]
                          IN  /\ category.name = resolve(files[i])[2]
                              /\ Len(category.items) >= 1
                              /\ files[i].path.v \in Range(category.items[1].files)

\* a descriptor without a path opened the category, a later one of the same
\* default label (an unknown extension) had its path stored
C10_Witness ==
    /\ Built
    /\ Len(files) >= 2
    /\ DOMAIN files[1] = {}
    /\ DOMAIN files[2] = {"extension", "path"}
    /\ resolve(files[2])[2] = "Miscellaneous"
    /\ structure.areas[1].number = 90
    /\ structure.areas[1].categories[1].items[1].files = <<files[2].path.v>>

\* C11: in a built structure the file paths of an item form a set: no path
\* occurs twice in an item's files, also when the batch names a path twice.
C11_FilesFormASet ==
    Built =>
        \A p \in CategoryPositions :
            \A j \in 1..Len(CategoryAt(p).items) :
                LET paths == CategoryAt(p).items[j].files
                IN  \A x, y \in 1..Len(paths) : paths[x] = paths[y] => x = y

-----------------------------------------------------------------------------
(* Properties of validate_structure on any structure (SpecValidate) *)

\* validate_structure has returned a report
Reported == validation.kind = "ok"

\* C12: the report's is_valid flag is true exactly when its error list is
\* empty, whatever the warnings; the structure of area 20 with category 21
\* and no items gets is_valid = true and no errors.
C12_ValidIffNoErrors ==
    Reported =>
        /\ validation.is_valid <=> Len(validation.errors) = 0
        /\ structure.areas = <<Area(20, <<Category(21, "PDFs", <<>>)>>)>> =>
               validation.is_valid /\ validation.errors = <<>>

\* a report with warnings and no errors
C12_Witness ==
    Reported /\ validation.is_valid /\ Len(validation.warnings) > 0

\* the reported errors of one kind, in report order
ErrorsOfKind(kind) ==
    LET IsKind(e) == e.error_type = kind
    IN  SelectSeq(validation.errors, IsKind)

\* how many elements of seq satisfy Test
Count(seq, Test(_)) == Cardinality({i \in 1..Len(seq) : Test(seq[i])})

AreaNumberValid(n) == n % 10 = 0 /\ 10 <= n /\ n <= 90

\* C13: validate_structure returns a report for every structure, and the
\* report has an invalid_category_number error for a category exactly when
\* NOT (area.number <= category.number < area.number + 10), the sum being an
\* ordinary integer, also for area numbers of 246 and above.
C13_CategoryRangeAsIntegers ==
    Validated =>
        /\ Reported
        /\ \A p \in CategoryPositions :
               LET area == structure.areas[p[1]]
                   category == CategoryAt(p)
                   Flags(e) == /\ e.area_number = area.number
                               /\ e.category_number = category.number
               IN  Count(ErrorsOfKind("invalid_category_number"), Flags) > 0
                   <=> ~(area.number <= category.number
                         /\ category.number < area.number + 10)

\* C14: the report has one invalid_area_number error per area whose number
\* is not a multiple of ten in 10..90 and none for any other area; a lone
\* area 25 with a category inside 25..34 gets exactly that one error and
\* is_valid = false.
C14_AreaNumberErrors ==
    Validated =>
        /\ Reported
        /\ \A a \in 1..Len(structure.areas) :
               LET n == structure.areas[a].number
                   Flags(e) == e.area_number = n
                   Numbered(area) == area.number = n
               IN  Count(ErrorsOfKind("invalid_area_number"), Flags)
                   = IF AreaNumberValid(n) THEN 0 ELSE Count(structure.areas, Numbered)
        /\ \A items \in ValidateItemLists :
               structure.areas = <<Area(25, <<Category(30, "PDFs", items)>>)>> =>
                   /\ Len(validation.errors) = 1
                   /\ validation.errors[1].error_type = "invalid_area_number"
                   /\ ~validation.is_valid

\* C15: a category number occurring k times anywhere in the structure gets
\* exactly k-1 duplicate_category_number errors, on its second and later
\* occurrences in visit order.
C15_CategoryNumbersUniqueAcrossAreas ==
    Validated =>
        /\ Reported
        /\ \A p \in CategoryPositions :
               LET n == CategoryAt(p).number
                   Flags(e) == e.category_number = n
                   Numbered(v) == v[2] = n
                   flagged == SelectSeq(ErrorsOfKind("duplicate_category_number"), Flags)
                   visited == SelectSeq(Visits(structure.areas), Numbered)
               IN  /\ Len(flagged) = Len(visited) - 1
                   /\ \A i \in 1..Len(flagged) :
                          flagged[i].area_number = visited[i + 1][1]

\* C16: an area number occurring k times gets exactly k-1
\* duplicate_area_number errors.
C16_AreaNumbersUnique ==
    Validated =>
        /\ Reported
        /\ \A a \in 1..Len(structure.areas) :
               LET n == structure.areas[a].number
                   Flags(e) == e.area_number = n
                   Numbered(area) == area.number = n
               IN  Count(ErrorsOfKind("duplicate_area_number"), Flags)
                   = Count(structure.areas, Numbered) - 1

-----------------------------------------------------------------------------
(* Properties of categorize_file (SpecAssign) *)

\* categorize_file has returned
Assigned == assignment.kind # "none"

\* the lower-cased extension of the file handed to categorize_file
AssignedExtension == to_lowercase(as_str_or(files[1], "extension", ""))

\* C18: for a file whose extension is not in the rule table, a missing
\* extension included, categorize_file returns area 90, category 91, item
\* 91.01 and confidence 0.5, whatever the structure holds.
C18_UnmappedIsMiscellaneous ==
    (Assigned /\ AssignedExtension \notin MappedExtensions) =>
        /\ assignment.area_number = 90
        /\ assignment.category_number = 91
        /\ assignment.item_number = Identifier(91, 1)
        /\ assignment.confidence = 50

\* an unmapped file assigned against a structure whose area 90 holds a
\* category named Miscellaneous under number 95
C18_Witness ==
    /\ Assigned
    /\ AssignedExtension \notin MappedExtensions
    /\ \E a \in 1..Len(structure.areas) :
           /\ structure.areas[a].number = 90
           /\ \E c \in 1..Len(structure.areas[a].categories) :
                  /\ structure.areas[a].categories[c].name = "Miscellaneous"
                  /\ structure.areas[a].categories[c].number = 95

\* the category's name contains the label, letter case aside
NameContains(category, label) ==
    str_contains(to_lowercase(category.name), to_lowercase(label))

\* the positions of the categories of an area whose name contains the label
MatchesIn(area, label) ==
    {c \in 1..Len(area.categories) : NameContains(area.categories[c], label)}

\* the assignment the claim describes for a matching category
AssignedTo(area_number, category) ==
    /\ assignment.area_number = area_number
    /\ assignment.category_number = category.number
    /\ assignment.item_number =
           IF category.items # <<>> THEN category.items[1].number
           ELSE Identifier(category.number, 1)
    /\ assignment.confidence = 85

\* C19 as stated: for a mapped extension (in any letter case), when some
\* area with the resolved number has a category whose name contains the
\* resolved label, the assignment is the first such category of such an area.
C19_SomeAreaWithTheNumber ==
    (Assigned /\ AssignedExtension \in MappedExtensions) =>
        LET area_number == file_type_mappings[AssignedExtension][1]
            label == file_type_mappings[AssignedExtension][2]
            areas == {a \in 1..Len(structure.areas) :
                         /\ structure.areas[a].number = area_number
                         /\ MatchesIn(structure.areas[a], label) # {}}
        IN  areas # {} =>
                \E a \in areas :
                    \E c \in MatchesIn(structure.areas[a], label) :
                        /\ \A d \in MatchesIn(structure.areas[a], label) : c <= d
                        /\ AssignedTo(area_number, structure.areas[a].categories[c])

\* C19 amended: for a mapped extension (in any letter case), when the FIRST
\* area in stored order with the resolved number has a category whose name
\* contains the resolved label, the assignment is the first such category of
\* that area, with its first item's identifier or else {category.number}.01,
\* and confidence 0.85.
C19_FirstAreaWithTheNumber ==
    (Assigned /\ AssignedExtension \in MappedExtensions) =>
        LET area_number == file_type_mappings[AssignedExtension][1]
            label == file_type_mappings[AssignedExtension][2]
            numbered == {a \in 1..Len(structure.areas) :
                            structure.areas[a].number = area_number}
        IN  \A a \in numbered :
                ((\A b \in numbered : a <= b) /\ MatchesIn(structure.areas[a], label) # {}) =>
                    \E c \in MatchesIn(structure.areas[a], label) :
                        /\ \A d \in MatchesIn(structure.areas[a], label) : c <= d
                        /\ AssignedTo(area_number, structure.areas[a].categories[c])

\* an upper-case PDF assigned against a structure whose first area 20 has
\* two categories containing the label, the first of them with items
C19_Witness ==
    /\ Assigned
    /\ as_str_or(files[1], "extension", "") = "PDF"
    /\ assignment.confidence = 85
    /\ \E a \in 1..Len(structure.areas) :
           /\ structure.areas[a].number = 20
           /\ \A b \in 1..(a - 1) : structure.areas[b].number # 20
           /\ Cardinality(MatchesIn(structure.areas[a], "Reports and Documents")) >= 2
           /\ assignment.item_number = <<"2", "2", ".", "0", "7">>

-----------------------------------------------------------------------------
(* Properties of the classifier's lifecycle (Spec), continued *)

\* C20: stop can be called whenever no call is in flight and returns Ok;
\* after it the classifier is not running and has no selected model; a stop
\* right after a stop changes nothing, and a status query right after a stop
\* answers "stopped", unavailable, no model.
C20_StopAlwaysStops ==
    /\ [](pc = "idle" => ENABLED stop)
    /\ [](last.op = "stop" =>
            last.kind = "ok" /\ ~is_running /\ current_model = NONE)
    /\ [][(last.op = "stop" /\ last'.op = "stop") => UNCHANGED vars]_vars
    /\ [][(last.op = "stop" /\ last'.op = "get_status") =>
            /\ last'.kind = "ok"
            /\ last'.val.status = "stopped"
            /\ last'.val.available = FALSE
            /\ last'.val.model = NONE
            /\ ~is_running' /\ current_model' = NONE]_vars

\* a stop that came after a classify call was handled
C20_Witness ==
    last.op = "stop" /\ request # NoRequest

\* an error or a warning reduced to its kind and what it is about
Key(kind, a, c) == [kind |-> kind, a |-> a, c |-> c]
KeyEq(x, y) == x.kind = y.kind /\ x.a = y.a /\ x.c = y.c

ErrorKeys ==
    [i \in 1..Len(validation.errors) |->
        Key(validation.errors[i].error_type, validation.errors[i].area_number,
            validation.errors[i].category_number)]

\* message[2] is the item number, category number or area number in question
WarningKeys ==
    [i \in 1..Len(validation.warnings) |->
        Key(validation.warnings[i].warning_type, validation.warnings[i].message[2], NONE)]

RECURSIVE Concat(_)
Concat(seqs) == IF Len(seqs) = 0 THEN <<>> ELSE seqs[1] \o Concat(Tail(seqs))

\* s is t with some elements left out
RECURSIVE Embeds(_, _)
Embeds(s, t) ==
    IF Len(s) = 0 THEN TRUE
    ELSE IF Len(t) = 0 THEN FALSE
    ELSE IF KeyEq(s[1], t[1]) THEN Embeds(Tail(s), Tail(t))
    ELSE Embeds(s, Tail(t))

\* the errors in the claimed order: per area its invalid_area_number error
\* (number out of range), its duplicate_area_number error (number of an
\* earlier area), then per category invalid_category_number (which
\* categories get one is the matter of C13) and duplicate_category_number
\* (number of a category visited earlier)
ErrorsInVisitOrder ==
    LET areas == structure.areas
        OfCategory(a, c) ==
            LET n == areas[a].number
                m == areas[a].categories[c].number
                earlier == \/ \E d \in 1..(c - 1) : areas[a].categories[d].number = m
                           \/ \E b \in 1..(a - 1) :
                                  \E d \in 1..Len(areas[b].categories) :
                                      areas[b].categories[d].number = m
            IN  <<Key("invalid_category_number", n, m)>>
                \o (IF earlier THEN <<Key("duplicate_category_number", n, m)>> ELSE <<>>)
        OfArea(a) ==
            LET n == areas[a].number
            IN  (IF AreaNumberValid(n) THEN <<>>
                 ELSE <<Key("invalid_area_number", n, NONE)>>)
                \o (IF \E b \in 1..(a - 1) : areas[b].number = n
                    THEN <<Key("duplicate_area_number", n, NONE)>> ELSE <<>>)
                \o Concat([c \in 1..Len(areas[a].categories) |-> OfCategory(a, c)])
    IN  Concat([a \in 1..Len(areas) |-> OfArea(a)])

\* the warnings in the claimed order: per category its item_numbering
\* warnings in item order, then too_many_items; per area, after its
\* categories, empty_area
WarningsInVisitOrder ==
    LET areas == structure.areas
        OfCategory(category) ==
            LET Misnumbered(i) ==
                    category.items[i].number # item_number(category.number, i)
                bad == SelectSeq([i \in 1..Len(category.items) |-> i], Misnumbered)
            IN  [k \in 1..Len(bad) |->
                    Key("item_numbering", category.items[bad[k]].number, NONE)]
            \o (IF Len(category.items) > 99
                THEN <<Key("too_many_items", category.number, NONE)>> ELSE <<>>)
        OfArea(area) ==
            Concat([c \in 1..Len(area.categories) |-> OfCategory(area.categories[c])])
            \o (IF Len(area.categories) = 0
                THEN <<Key("empty_area", area.number, NONE)>> ELSE <<>>)
    IN  Concat([a \in 1..Len(areas) |-> OfArea(areas[a])])

\* C25: the report lists errors and warnings in visit order: areas in stored
\* order; per area invalid_area_number, duplicate_area_number, then per
\* category in stored order invalid_category_number, duplicate_category_number;
\* per category its item_numbering warnings in item order, then
\* too_many_items; an area's empty_area warning after everything of that area
\* and before anything of the next.
C25_ReportInVisitOrder ==
    Reported =>
        LET Ranged(k) == k.kind = "invalid_category_number"
            Other(k) == k.kind # "invalid_category_number"
        IN  /\ Embeds(ErrorKeys, ErrorsInVisitOrder)
            /\ SelectSeq(ErrorKeys, Other) = SelectSeq(ErrorsInVisitOrder, Other)
            /\ Len(WarningKeys) = Len(WarningsInVisitOrder)
            /\ \A i \in 1..Len(WarningKeys) : KeyEq(WarningKeys[i], WarningsInVisitOrder[i])

\* a report with all four kinds of error and all three kinds of warning
C25_Witness ==
    /\ Reported
    /\ ErrorKinds = {"invalid_area_number", "duplicate_area_number",
                     "invalid_category_number", "duplicate_category_number"}
    /\ WarningKinds = {"item_numbering", "too_many_items", "empty_area"}

-----------------------------------------------------------------------------
(* Properties of create_structure (SpecBuild, SpecAgree), continued *)

\* the position in the batch of the first descriptor that resolves to this
\* area number and label (0: none does)
FirstAppearance(area_number, label) ==
    LET hits == {k \in 1..Len(files) : resolve(files[k]) = <<area_number, label>>}
    IN  IF hits = {} THEN 0 ELSE CHOOSE k \in hits : \A h \in hits : k <= h

\* C26: in a built structure the category at 0-based position i of an area
\* has number area.number + i + 1, and the categories of an area stand in
\* the order in which their labels first appear in the batch; the (area,
\* label) pairs are those the descriptors resolve to, in whatever order the
\* batch lists them.
C26_NumberedByFirstAppearance ==
    Built =>
        /\ \A a \in 1..Len(structure.areas) :
               LET area == structure.areas[a]
               IN  \A i \in 1..Len(area.categories) :
                       /\ area.categories[i].number = area.number + (i - 1) + 1
                       /\ FirstAppearance(area.number, area.categories[i].name) > 0
                       /\ \A j \in 1..(i - 1) :
                              FirstAppearance(area.number, area.categories[j].name)
                              < FirstAppearance(area.number, area.categories[i].name)
        /\ {<<structure.areas[p[1]].number, CategoryAt(p).name>> : p \in CategoryPositions}
           = {resolve(files[k]) : k \in 1..Len(files)}

\* a batch that names a doc before a pdf: Text Documents is 21 and Reports
\* and Documents is 22
C26_Witness ==
    /\ Built
    /\ \E a \in 1..Len(structure.areas) :
           /\ structure.areas[a].number = 20
           /\ Len(structure.areas[a].categories) = 2
           /\ structure.areas[a].categories[1].name = "Text Documents"
           /\ structure.areas[a].categories[1].number = 21
           /\ structure.areas[a].categories[2].name = "Reports and Documents"
           /\ structure.areas[a].categories[2].number = 22

\* the descriptor of the batch that categorize_file was last called with
AssignedDescriptor == files[last.val]

\* the (area number, label) pairs of the rule table
Labels == {file_type_mappings[e] : e \in MappedExtensions}

\* C29: for every descriptor f of a batch, categorize_file(f, structure built
\* from the batch) returns the area number, the category number and the
\* first item identifier of the category create_structure placed f in, with
\* confidence 0.85 for a mapped extension and the fixed 90 / 91 / 91.01 with
\* confidence 0.5 for an unmapped one; no label of the rule table is a
\* case-insensitive substring of another label of the same area.
C29_BuildAndAssignAgree ==
    /\ (Built /\ Assigned) =>
          LET placed == resolve(AssignedDescriptor)
              mapped == to_lowercase(as_str_or(AssignedDescriptor, "extension", ""))
                            \in MappedExtensions
          IN  /\ \E p \in CategoryPositions :
                     /\ structure.areas[p[1]].number = placed[1]
                     /\ CategoryAt(p).name = placed[2]
                     /\ assignment.area_number = placed[1]
                     /\ assignment.category_number = CategoryAt(p).number
                     /\ assignment.item_number = CategoryAt(p).items[1].number
              /\ assignment.confidence = IF mapped THEN 85 ELSE 50
              /\ ~mapped =>
                     /\ assignment.area_number = 90
                     /\ assignment.category_number = 91
                     /\ assignment.item_number = Identifier(91, 1)
    /\ \A x, y \in Labels :
           (x[1] = y[1] /\ x[2] # y[2]) =>
               ~str_contains(to_lowercase(x[2]), to_lowercase(y[2]))

\* a descriptor assigned to the third category of its area, and an unmapped
\* one assigned to the category built for it
C29_Witness ==
    /\ Built /\ Assigned
    /\ \/ assignment.category_number = assignment.area_number + 3
       \/ /\ assignment.confidence = 50
          /\ \E p \in CategoryPositions : CategoryAt(p).name = "Miscellaneous"
    /\ Len(files) = MaxBatch

\* C30: validating the structure create_structure returns, for any batch
\* (the empty one included), reports is_valid = true with no
\* invalid_area_number error, no invalid_category_number error and no
\* empty_area warning: every area number is one of 20, 30, 40, 50, 90, every
\* area holds at least one category, and no area holds more than 9.
C30_BuiltIsValid ==
    /\ Built =>
          /\ \A a \in 1..Len(structure.areas) :
                 /\ structure.areas[a].number \in {20, 30, 40, 50, 90}
                 /\ Len(structure.areas[a].categories) \in 1..9
    /\ Validated =>
          /\ validation.kind = "ok"
          /\ validation.is_valid
          /\ "invalid_area_number" \notin ErrorKinds
          /\ "invalid_category_number" \notin ErrorKinds
          /\ "empty_area" \notin WarningKinds
    /\ \A x \in Labels \cup {<<90, "Miscellaneous">>} :
           /\ x[1] \in {20, 30, 40, 50, 90}
           /\ Cardinality({y \in Labels \cup {<<90, "Miscellaneous">>} : y[1] = x[1]}) <= 9

\* the structures of the empty batch and of a batch that opens area 90 and
\* another area, validated
C30_Witness ==
    /\ Validated
    /\ \/ files = <<>>
       \/ /\ Len(structure.areas) >= 2
          /\ \E a \in 1..Len(structure.areas) : structure.areas[a].number = 90

-----------------------------------------------------------------------------
(* Properties of the classifier's lifecycle (Spec): the selected model *)

\* C27: after any sequence of start, stop, get_status and analyze_file calls,
\* with any backend behaviour, a model is selected only if the classifier is
\* running; a fresh classifier is not running and has no model.
C27_ModelOnlyWhenRunning ==
    /\ current_model # NONE => is_running
    /\ last.op = "new" => ~is_running /\ current_model = NONE

\* running with a model selected, after a classify call was answered
C27_Witness ==
    /\ is_running /\ current_model # NONE
    /\ Classified

\* C28: whenever start returns success and the backend's model list query
\* works, a model is selected afterwards (so that a following classify call
\* sends a generate request), whether the backend was reachable at the call
\* or had to be launched.
C28_StartedMeansModelSelected ==
    \A avail1, spawned, avail2 \in BOOLEAN :
        \A tags \in {t \in TagsOutcomes : t.ok} :
            LET r == start_state(is_running, current_model, avail1, spawned, avail2, tags)
            IN  r.kind = "ok" => r.current_model # NONE

-----------------------------------------------------------------------------
(* Properties of calls in flight together (SpecCalls, SpecCallsFair) *)

\* the callers whose call of one of these operations is in flight
InFlight(ops) == {c \in Callers : calls[c].op \in ops}

\* C21: at no point are two of start/stop in flight on the classifier, and
\* no classify call is in flight while a start (its grace-period wait
\* included) or a stop is; so what a classify call in flight has read of
\* (is_running, current_model) is still what the classifier holds.
C21_SingleWriter ==
    /\ Cardinality(InFlight({"start", "stop"})) <= 1
    /\ InFlight({"start", "stop"}) # {} => InFlight({"analyze_file"}) = {}
    /\ \A c \in InFlight({"analyze_file"}) :
           calls[c].seen = [is_running |-> is_running, current_model |-> current_model]

\* two classify calls in flight together
C21_Witness ==
    Cardinality(InFlight({"analyze_file"})) >= 2

\* C22: no call hangs: every call in flight eventually returns, whatever the
\* backend does, given that timers fire.
C22_EveryCallReturns ==
    \A c \in Callers : (~Returned(c)) ~> Returned(c)

\* C24: a generate request is sent only by an analyze_file call that read
\* is_running = true and a selected model, and a call sends at most one: when
\* the sending is over the call either reads the reply body or returns the
\* rule-based result, and when the body is over it returns; it never sends
\* again.
C24_OneRequestNoRetry ==
    /\ [](\A c \in Callers :
            /\ calls[c].sent <= 1
            /\ calls[c].sent = 1 =>
                   calls[c].seen.is_running /\ calls[c].seen.current_model # NONE
            /\ calls[c].phase \in {"send", "body"} =>
                   calls[c].op = "analyze_file" /\ calls[c].sent = 1)
    /\ [][\A c \in Callers :
            /\ (calls[c].phase = "send" /\ calls'[c] # calls[c]) =>
                   /\ calls'[c].sent = 1
                   /\ \/ calls'[c].phase = "body"
                      \/ calls'[c].op = "none" /\ calls'[c].result = "rules"
            /\ (calls[c].phase = "body" /\ calls'[c] # calls[c]) =>
                   /\ calls'[c].sent = 1
                   /\ calls'[c].op = "none"
                   /\ calls'[c].result \in {"rules", "reply"}]_vars

\* a call that sent its one request and returned the rule-based result,
\* while another call's request is still in flight
C24_Witness ==
    \E c, d \in Callers :
        /\ Returned(c) /\ calls[c].sent = 1 /\ calls[c].result = "rules"
        /\ calls[d].phase = "send"

-----------------------------------------------------------------------------
(* Properties of the stored structures (SpecStore) *)

\* load_structure has just returned Ok for the id of the structure saved last
LoadedLastSaved ==
    /\ last.op = "load_structure" /\ last.kind = "ok"
    /\ structure.id # NONE
    /\ last.val = structure.id

\* C23: loading by the id of the structure saved last returns a structure
\* equal to it in every field (id, name, root path, areas, categories, items,
\* file paths, timestamps), also when another structure was saved under that
\* id before; the table holds one row per id.
C23_SaveThenLoadIsEqual ==
    /\ LoadedLastSaved => loaded.kind = "some" /\ loaded.val = structure
    /\ \A r, q \in store : r.id = q.id => r = q

\* the structure with an area, a category, an item with file paths and a
\* timestamp with nanoseconds, loaded back while the other id is stored too
C23_Witness ==
    /\ LoadedLastSaved
    /\ loaded.kind = "some"
    /\ loaded.val.modified_at.nanos = 5
    /\ Len(loaded.val.areas) = 1
    /\ loaded.val.areas[1].categories[1].items[1].files = <<"/a/one", "/a/two">>
    /\ Cardinality(store) = 2

====
